---------------------------- MODULE Spec2Model ----------------------------
(***************************************************************************)
(* Lathe tachometer (Pico RP2040, SSD1306 OLED).                           *)
(*                                                                         *)
(* The model follows the current revision of the firmware                  *)
(* (src/unnamed/part_000, the main.cpp after the CMake text); the older    *)
(* revision (src/main.cpp) is modelled where a claim is about it.          *)
(*                                                                         *)
(* Two execution contexts: gpio_callback (interrupt, runs to completion,   *)
(* preempts the foreground between two of its steps) and the foreground    *)
(* main loop.  The foreground is a deterministic sequence of steps         *)
(* (FgStep, selected by st.pc); a specification chooses which runs of      *)
(* steps are one atomic action, i.e. where the interrupt may preempt.      *)
(*                                                                         *)
(* Representation of the C types:                                          *)
(*   time            microseconds since boot (time_us_64); the             *)
(*                   millisecond clock is now \div 1000                    *)
(*   gear_ratio      float, held in tenths (1.0f is 10)                    *)
(*   workpiece_diameter  float, held in thousandths (0.125f is 125)        *)
(*   current_rpm, filtered_rpm  float, held in tenths of an RPM            *)
(*   magic_number    uint32, held as <<high half, low half>>               *)
(*   unsigned differences  compared by UGe/UGt/ULt, which give a           *)
(*                   negative difference its wrapped (huge) value          *)
(***************************************************************************)
EXTENDS Integers, Sequences, FiniteSets, TLC

VARIABLES
    now,    \* the hardware timer, microseconds since boot
    st      \* the program: globals, statics, locals, st.pc, and the h_ observers

vars == <<now, st>>

---------------------------------------------------------------------------
(* Program constants                                                       *)

DISPLAY_UPDATE_INTERVAL == 100
MENU_TIMEOUT == 10000
RPM_TIMEOUT_MS == 500
RPM_TIMEOUT_CHECK_MS == 100
LONG_PRESS_TIME == 1000
FLASH_PAGE_SIZE == 256
SETTINGS_MAGIC == <<43981, 4660>>
ERASED_WORD == <<65535, 65535>>

HALL_SENSOR_PIN == 12
BUTTON_UP_PIN == 1
BUTTON_DOWN_PIN == 2

GPIO_IRQ_EDGE_FALL == "GPIO_IRQ_EDGE_FALL"
GPIO_IRQ_EDGE_RISE == "GPIO_IRQ_EDGE_RISE"

\* enum MenuState, in the order of its declaration.
MenuOrder ==
    <<"MENU_NONE", "MENU_PULSES", "MENU_RATIO", "MENU_DECIMAL",
      "MENU_FILTER", "MENU_DIAMETER", "MENU_UNITS">>

MenuState ==
    {"MENU_NONE", "MENU_PULSES", "MENU_RATIO", "MENU_DECIMAL",
     "MENU_FILTER", "MENU_DIAMETER", "MENU_UNITS"}

\* busy_wait_ms(500) at the start of setup() and busy_wait_ms(2000) on the
\* welcome screen.
SETUP_WAIT_MS == 500
WELCOME_WAIT_MS == 2000

---------------------------------------------------------------------------
(* Bounds of the model                                                     *)

\* Time advances in quanta; the interrupt adds its own latency on top.
TickMs == 500
MaxTimeMs == 4000
MaxEdges == 3
IsrLatencyUs == 1

\* The sensor specification: its number of pulses, and the least distance
\* of two pulses (1000 pulses a second).
MaxPulses == 3
PulseGapUs == 1000

\* The menu specification: its quantum, its horizon, and its number of
\* gestures other than a long press of UP.
MenuTickMs == 2500
MaxMenuTimeMs == 20500
MaxOtherGestures == 1

\* The settings under the buttons (specification SpecEdit): the taps of a
\* run, the length of a tap, the end of the run.
MaxTaps == 2
TapMs == 50
MaxEditTimeMs == 9000

\* The flash record under power loss (specification SpecFlash): the power
\* losses, the edges at the pins and the diameter adjustments of a run.
MaxPowerLosses == 2
MaxFlashEdges == 2
MaxAdjusts == 1

\* The first RPM after the welcome screen (specification SpecCalc): the
\* most intervals that gather during the wait, and the longer of the two
\* gaps between pulses as a multiple of PulseGapUs.
MaxIntervals == 257
SlowGapFactor == 7

\* The filter under a shaft that changes speed (specification SpecFilter):
\* the pulses of a run.
MaxFilterPulses == 4

---------------------------------------------------------------------------
(* Unsigned arithmetic.  All model times are far below 2^31, so the        *)
(* wrapped value 2^w - (b - a) of a negative difference is above every     *)
(* threshold the program compares it with.                                 *)

UGe(a, b, thr) == IF a >= b THEN a - b >= thr ELSE TRUE
UGt(a, b, thr) == IF a >= b THEN a - b > thr ELSE TRUE
ULt(a, b, thr) == IF a >= b THEN a - b < thr ELSE FALSE

to_ms_since_boot(t) == t \div 1000

---------------------------------------------------------------------------
(* Settings record and flash                                               *)

DefaultSettings ==
    [magic_number |-> SETTINGS_MAGIC,
     pulses_per_rev |-> 1,
     gear_ratio |-> 10,
     show_decimal |-> TRUE,
     filter_strength |-> 3,
     workpiece_diameter |-> 25000,
     use_inches |-> FALSE]

\* The float whose four bytes are 0xFF is a NaN; the model holds it as -1.
NaN == -1

\* A sector that was erased and never programmed: every byte 0xFF.
ErasedFlash ==
    [magic_number |-> ERASED_WORD,
     pulses_per_rev |-> 255,
     gear_ratio |-> NaN,
     show_decimal |-> TRUE,
     filter_strength |-> 255,
     workpiece_diameter |-> NaN,
     use_inches |-> TRUE]

\* save_settings(): the record is copied into the page buffer, the sector
\* erased and the page programmed with interrupts disabled: one step.
save_settings(s) ==
    [s EXCEPT !.flash = s.settings, !.h_saves = s.h_saves + 1]

load_settings(s) ==
    IF s.flash.magic_number = SETTINGS_MAGIC
    THEN [s EXCEPT !.settings = s.flash]
    ELSE save_settings([s EXCEPT !.settings = DefaultSettings])

---------------------------------------------------------------------------
(* Short-press adjustments                                                 *)

\* The step up that stops at the maximum.
DiameterUpClamped(set) ==
    IF set.use_inches
    THEN [set EXCEPT !.workpiece_diameter =
            IF @ + 125 > 12000 THEN 12000 ELSE @ + 125]
    ELSE [set EXCEPT !.workpiece_diameter =
            IF @ + 1000 > 300000 THEN 300000 ELSE @ + 1000]

DiameterUp(set) ==
    IF set.use_inches
    THEN [set EXCEPT !.workpiece_diameter =
            IF @ + 125 > 12000 THEN 125 ELSE @ + 125]
    ELSE [set EXCEPT !.workpiece_diameter =
            IF @ + 1000 > 300000 THEN 1000 ELSE @ + 1000]

DiameterDown(set) ==
    IF set.use_inches
    THEN [set EXCEPT !.workpiece_diameter =
            IF @ <= 125 THEN 12000 ELSE @ - 125]
    ELSE [set EXCEPT !.workpiece_diameter =
            IF @ <= 1000 THEN 300000 ELSE @ - 1000]

\* roundf of the non-negative fraction num/den: half away from zero.
roundf(num, den) == (2 * num + den) \div (2 * den)

\* The conversion with the fraction cut off where the code rounds it.
ToggleUnitsTruncated(set) ==
    LET d == set.workpiece_diameter IN
    IF ~set.use_inches
    THEN LET v == ((d * 8) \div 25400) * 125
         IN [set EXCEPT !.use_inches = TRUE,
                        !.workpiece_diameter = IF v < 125 THEN 125 ELSE v]
    ELSE LET v == ((d * 254) \div 10000) * 1000
         IN [set EXCEPT !.use_inches = FALSE,
                        !.workpiece_diameter = IF v < 1000 THEN 1000 ELSE v]

\* settings.use_inches = !settings.use_inches, then the diameter converted
\* with 25.4 and rounded to the nearest 1/8 inch or millimetre.
ToggleUnits(set) ==
    LET d == set.workpiece_diameter IN
    IF ~set.use_inches
    THEN LET eighths == roundf(d * 8, 25400)
             v == eighths * 125
         IN [set EXCEPT !.use_inches = TRUE,
                        !.workpiece_diameter = IF v < 125 THEN 125 ELSE v]
    ELSE LET mm == roundf(d * 254, 10000)
             v == mm * 1000
         IN [set EXCEPT !.use_inches = FALSE,
                        !.workpiece_diameter = IF v < 1000 THEN 1000 ELSE v]

\* The UP edit with no upper limit on the gear ratio.
ShortUpEditRatioUnlimited(menu, set) ==
    CASE menu = "MENU_PULSES" ->
           [set EXCEPT !.pulses_per_rev =
              IF (@ + 1) % 256 > 66 THEN 1 ELSE (@ + 1) % 256]
      [] menu = "MENU_RATIO" -> [set EXCEPT !.gear_ratio = @ + 1]
      [] menu = "MENU_DECIMAL" -> [set EXCEPT !.show_decimal = ~@]
      [] menu = "MENU_FILTER" ->
           [set EXCEPT !.filter_strength =
              IF (@ + 1) % 256 > 10 THEN 0 ELSE (@ + 1) % 256]
      [] menu = "MENU_DIAMETER" -> DiameterUp(set)
      [] menu = "MENU_UNITS" -> ToggleUnits(set)
      [] OTHER -> DiameterUp(set)

\* uint8_t ++ wraps at 256 before the range test.
ShortUpEdit(menu, set) ==
    CASE menu = "MENU_PULSES" ->
           [set EXCEPT !.pulses_per_rev =
              IF (@ + 1) % 256 > 66 THEN 1 ELSE (@ + 1) % 256]
      [] menu = "MENU_RATIO" ->
           [set EXCEPT !.gear_ratio = IF @ + 1 > 100 THEN 1 ELSE @ + 1]
      [] menu = "MENU_DECIMAL" ->
           [set EXCEPT !.show_decimal = ~@]
      [] menu = "MENU_FILTER" ->
           [set EXCEPT !.filter_strength =
              IF (@ + 1) % 256 > 10 THEN 0 ELSE (@ + 1) % 256]
      [] menu = "MENU_DIAMETER" -> DiameterUp(set)
      [] menu = "MENU_UNITS" -> ToggleUnits(set)
      [] OTHER -> DiameterUp(set)

\* The DOWN edit that stops at the lower limit of the filter strength and
\* of the pulses per revolution.
ShortDownEditClamped(menu, set) ==
    CASE menu = "MENU_PULSES" ->
           [set EXCEPT !.pulses_per_rev = IF @ <= 1 THEN 1 ELSE @ - 1]
      [] menu = "MENU_RATIO" ->
           [set EXCEPT !.gear_ratio = IF @ - 1 < 1 THEN 100 ELSE @ - 1]
      [] menu = "MENU_DECIMAL" -> [set EXCEPT !.show_decimal = ~@]
      [] menu = "MENU_FILTER" ->
           [set EXCEPT !.filter_strength = IF @ <= 0 THEN 0 ELSE @ - 1]
      [] menu = "MENU_DIAMETER" -> DiameterDown(set)
      [] menu = "MENU_UNITS" -> ToggleUnits(set)
      [] OTHER -> DiameterDown(set)

\* uint8_t -- is guarded by the test of the lower limit: it never wraps.
ShortDownEdit(menu, set) ==
    CASE menu = "MENU_PULSES" ->
           [set EXCEPT !.pulses_per_rev = IF @ <= 1 THEN 66 ELSE @ - 1]
      [] menu = "MENU_RATIO" ->
           [set EXCEPT !.gear_ratio = IF @ - 1 < 1 THEN 100 ELSE @ - 1]
      [] menu = "MENU_DECIMAL" ->
           [set EXCEPT !.show_decimal = ~@]
      [] menu = "MENU_FILTER" ->
           [set EXCEPT !.filter_strength = IF @ <= 0 THEN 10 ELSE @ - 1]
      [] menu = "MENU_DIAMETER" -> DiameterDown(set)
      [] menu = "MENU_UNITS" -> ToggleUnits(set)
      [] OTHER -> DiameterDown(set)

---------------------------------------------------------------------------
(* gpio_callback: the interrupt handler.  t is the value time_us_64()      *)
(* returns inside the handler.                                             *)

\* The handler that takes the first pulse after boot for the end of an
\* interval.
GpioCallbackCountsFirstPulse(s, gpio, events, t) ==
    IF gpio = HALL_SENSOR_PIN
    THEN [s EXCEPT !.pulse_count = @ + 1,
                   !.last_pulse_time = s.current_pulse_time,
                   !.current_pulse_time = t,
                   !.pulse_interval_sum = @ + (t - s.current_pulse_time),
                   !.pulse_intervals_count = (@ + 1) % 256,
                   !.rpm_data_ready = TRUE,
                   !.h_sum_n = @ + 1]
    ELSE s

\* The handler that also notes a button edge as menu activity.
GpioCallbackNotesActivity(s, gpio, events, t) ==
    LET s1 ==
          IF gpio = HALL_SENSOR_PIN
          THEN LET a == [s EXCEPT !.pulse_count = @ + 1,
                                  !.last_pulse_time = s.current_pulse_time,
                                  !.current_pulse_time = t]
               IN IF a.last_pulse_time > 0
                  THEN [a EXCEPT
                          !.pulse_interval_sum =
                              @ + (a.current_pulse_time - a.last_pulse_time),
                          !.pulse_intervals_count = (@ + 1) % 256,
                          !.rpm_data_ready = TRUE,
                          !.h_sum_n = @ + 1]
                  ELSE a
          ELSE s
    IN CASE gpio = BUTTON_UP_PIN /\ GPIO_IRQ_EDGE_FALL \in events ->
              [s1 EXCEPT !.button_up_pressed = TRUE,
                         !.button_up_press_time = t,
                         !.button_up_long_press = FALSE,
                         !.menu_last_activity = to_ms_since_boot(t)]
         [] gpio = BUTTON_UP_PIN /\ GPIO_IRQ_EDGE_FALL \notin events
                                 /\ GPIO_IRQ_EDGE_RISE \in events ->
              [s1 EXCEPT !.button_up_pressed = FALSE]
         [] gpio = BUTTON_DOWN_PIN /\ GPIO_IRQ_EDGE_FALL \in events ->
              [s1 EXCEPT !.button_down_pressed = TRUE,
                         !.button_down_press_time = t,
                         !.button_down_long_press = FALSE,
                         !.menu_last_activity = to_ms_since_boot(t)]
         [] gpio = BUTTON_DOWN_PIN /\ GPIO_IRQ_EDGE_FALL \notin events
                                   /\ GPIO_IRQ_EDGE_RISE \in events ->
              [s1 EXCEPT !.button_down_pressed = FALSE]
         [] OTHER -> s1

gpio_callback(s, gpio, events, t) ==
    LET s1 ==
          IF gpio = HALL_SENSOR_PIN
          THEN LET a == [s EXCEPT !.pulse_count = @ + 1,
                                  !.last_pulse_time = s.current_pulse_time,
                                  !.current_pulse_time = t]
               IN IF a.last_pulse_time > 0
                  THEN [a EXCEPT
                          !.pulse_interval_sum =
                              @ + (a.current_pulse_time - a.last_pulse_time),
                          !.pulse_intervals_count = (@ + 1) % 256,
                          !.rpm_data_ready = TRUE,
                          !.h_sum_n = @ + 1]
                  ELSE a
          ELSE s
    IN CASE gpio = BUTTON_UP_PIN /\ GPIO_IRQ_EDGE_FALL \in events ->
              [s1 EXCEPT !.button_up_pressed = TRUE,
                         !.button_up_press_time = t,
                         !.button_up_long_press = FALSE]
         [] gpio = BUTTON_UP_PIN /\ GPIO_IRQ_EDGE_FALL \notin events
                                 /\ GPIO_IRQ_EDGE_RISE \in events ->
              [s1 EXCEPT !.button_up_pressed = FALSE]
         [] gpio = BUTTON_DOWN_PIN /\ GPIO_IRQ_EDGE_FALL \in events ->
              [s1 EXCEPT !.button_down_pressed = TRUE,
                         !.button_down_press_time = t,
                         !.button_down_long_press = FALSE]
         [] gpio = BUTTON_DOWN_PIN /\ GPIO_IRQ_EDGE_FALL \notin events
                                   /\ GPIO_IRQ_EDGE_RISE \in events ->
              [s1 EXCEPT !.button_down_pressed = FALSE]
         [] OTHER -> s1

---------------------------------------------------------------------------
(* process_buttons(), in the order of its statements                       *)

\* uint64_t current_time = time_us_64(); uint32_t ms_time = to_ms_since_boot(..)
PbSample(s, t) ==
    [s EXCEPT !.pb_current_time = t, !.ms_time = to_ms_since_boot(t)]

\* The chain as src/main.cpp has it: four fields, MENU_FILTER the last.
NextMenuFourFields(m) ==
    CASE m = "MENU_NONE" -> "MENU_PULSES"
      [] m = "MENU_PULSES" -> "MENU_RATIO"
      [] m = "MENU_RATIO" -> "MENU_DECIMAL"
      [] m = "MENU_DECIMAL" -> "MENU_FILTER"
      [] OTHER -> "MENU_NONE"

\* The if/else-if chain of the UP long press.
NextMenu(m) ==
    CASE m = "MENU_NONE" -> "MENU_PULSES"
      [] m = "MENU_PULSES" -> "MENU_RATIO"
      [] m = "MENU_RATIO" -> "MENU_DECIMAL"
      [] m = "MENU_DECIMAL" -> "MENU_FILTER"
      [] m = "MENU_FILTER" -> "MENU_DIAMETER"
      [] m = "MENU_DIAMETER" -> "MENU_UNITS"
      [] OTHER -> "MENU_NONE"

\* The UP long press without its latch button_up_long_press.
PbUpLongNoLatch(s) ==
    IF /\ s.button_up_pressed
       /\ ~s.button_up_long_press
       /\ UGe(s.pb_current_time, s.button_up_press_time, LONG_PRESS_TIME * 1000)
    THEN LET a == [s EXCEPT !.h_up_fires = @ + 1,
                            !.current_menu = NextMenu(s.current_menu)]
             b == IF s.current_menu \in MenuState \ {"MENU_UNITS"}
                  THEN a
                  ELSE save_settings(a)
         IN [b EXCEPT !.menu_last_activity = s.ms_time]
    ELSE s

PbUpLong(s) ==
    IF /\ s.button_up_pressed
       /\ ~s.button_up_long_press
       /\ UGe(s.pb_current_time, s.button_up_press_time, LONG_PRESS_TIME * 1000)
    THEN LET a == [s EXCEPT !.button_up_long_press = TRUE,
                            !.h_up_fires = @ + 1,
                            !.current_menu = NextMenu(s.current_menu)]
             b == IF s.current_menu \in MenuState \ {"MENU_UNITS"}
                  THEN a
                  ELSE save_settings(a)
         IN [b EXCEPT !.menu_last_activity = s.ms_time]
    ELSE s

\* The DOWN long press leaving the menu without save_settings().
PbDownLongNoSave(s) ==
    IF /\ s.button_down_pressed
       /\ ~s.button_down_long_press
       /\ UGe(s.pb_current_time, s.button_down_press_time, LONG_PRESS_TIME * 1000)
    THEN [s EXCEPT !.button_down_long_press = TRUE,
                   !.h_down_fires = @ + 1,
                   !.current_menu = "MENU_NONE"]
    ELSE s

\* The DOWN long press that saves in MENU_NONE as well.
PbDownLongSavesAlways(s) ==
    IF /\ s.button_down_pressed
       /\ ~s.button_down_long_press
       /\ UGe(s.pb_current_time, s.button_down_press_time, LONG_PRESS_TIME * 1000)
    THEN save_settings([s EXCEPT !.button_down_long_press = TRUE,
                                 !.h_down_fires = @ + 1,
                                 !.current_menu = "MENU_NONE"])
    ELSE s

PbDownLong(s) ==
    IF /\ s.button_down_pressed
       /\ ~s.button_down_long_press
       /\ UGe(s.pb_current_time, s.button_down_press_time, LONG_PRESS_TIME * 1000)
    THEN LET a == [s EXCEPT !.button_down_long_press = TRUE,
                            !.h_down_fires = @ + 1]
         IN IF a.current_menu # "MENU_NONE"
            THEN save_settings([a EXCEPT !.current_menu = "MENU_NONE"])
            ELSE a
    ELSE s

\* if (!button_up_pressed && !button_up_handled) ...
\* else if (button_up_pressed) button_up_handled = false;
PbUpShortCheck(s) ==
    IF ~s.button_up_pressed /\ ~s.button_up_handled
    THEN [s EXCEPT !.pc = "pb_up_short_body"]
    ELSE IF s.button_up_pressed
         THEN [s EXCEPT !.button_up_handled = FALSE, !.pc = "pb_down_short"]
         ELSE [s EXCEPT !.pc = "pb_down_short"]

\* The UP short press without its latch button_up_handled.
PbUpShortBodyNoLatch(s) ==
    IF ULt(s.pb_current_time, s.button_up_press_time, LONG_PRESS_TIME * 1000)
    THEN LET e == [s EXCEPT !.settings = ShortUpEdit(s.current_menu, @),
                            !.h_up_acts = @ + 1]
             f == IF s.current_menu = "MENU_NONE" THEN save_settings(e) ELSE e
         IN [f EXCEPT !.menu_last_activity = s.ms_time,
                      !.pc = "pb_down_short"]
    ELSE [s EXCEPT !.pc = "pb_down_short"]

\* ... { if (current_time - button_up_press_time < LONG_PRESS_TIME * 1000)
\*          { the edit; menu_last_activity = ms_time; }
\*       button_up_handled = true; }
PbUpShortBody(s) ==
    LET a ==
          IF ULt(s.pb_current_time, s.button_up_press_time,
                 LONG_PRESS_TIME * 1000)
          THEN LET e == [s EXCEPT
                           !.settings = ShortUpEdit(s.current_menu, @),
                           !.h_up_acts = @ + 1,
                           !.h_held_acts =
                               IF s.button_up_pressed THEN @ + 1 ELSE @]
                   f == IF s.current_menu = "MENU_NONE"
                        THEN save_settings(e) ELSE e
               IN [f EXCEPT !.menu_last_activity = s.ms_time]
          ELSE s
    IN [a EXCEPT !.button_up_handled = TRUE, !.pc = "pb_down_short"]

PbDownShortCheck(s) ==
    IF ~s.button_down_pressed /\ ~s.button_down_handled
    THEN [s EXCEPT !.pc = "pb_down_short_body"]
    ELSE IF s.button_down_pressed
         THEN [s EXCEPT !.button_down_handled = FALSE, !.pc = "pb_return"]
         ELSE [s EXCEPT !.pc = "pb_return"]

\* The DOWN short press with a save after the edit in every menu.
PbDownShortBodySavesEdit(s) ==
    LET a ==
          IF ULt(s.pb_current_time, s.button_down_press_time,
                 LONG_PRESS_TIME * 1000)
          THEN LET e == [s EXCEPT
                           !.settings = ShortDownEdit(s.current_menu, @),
                           !.h_down_acts = @ + 1,
                           !.h_held_acts =
                               IF s.button_down_pressed THEN @ + 1 ELSE @]
               IN [save_settings(e) EXCEPT !.menu_last_activity = s.ms_time]
          ELSE s
    IN [a EXCEPT !.button_down_handled = TRUE, !.pc = "pb_return"]

PbDownShortBody(s) ==
    LET a ==
          IF ULt(s.pb_current_time, s.button_down_press_time,
                 LONG_PRESS_TIME * 1000)
          THEN LET e == [s EXCEPT
                           !.settings = ShortDownEdit(s.current_menu, @),
                           !.h_down_acts = @ + 1,
                           !.h_held_acts =
                               IF s.button_down_pressed THEN @ + 1 ELSE @]
                   f == IF s.current_menu = "MENU_NONE"
                        THEN save_settings(e) ELSE e
               IN [f EXCEPT !.menu_last_activity = s.ms_time]
          ELSE s
    IN [a EXCEPT !.button_down_handled = TRUE, !.pc = "pb_return"]

\* process_buttons() returns: its locals are dead and are zeroed.
PbReturn(s) ==
    [s EXCEPT !.pb_current_time = 0, !.ms_time = 0, !.pc = "rpm_ready"]

---------------------------------------------------------------------------
(* calculate_rpm(), in the order of its statements.  st.cr_ret is the      *)
(* place in main() the call returns to.                                    *)

\* uint64_t current_time = time_us_64(); float previous_rpm = current_rpm;
CrEntry(s, t) ==
    [s EXCEPT !.cr_current_time = t, !.previous_rpm = s.current_rpm,
              !.pc = "cr_timeout"]

\* The timeout test with the three seconds of src/main.cpp.
CrTimeoutThreeSeconds(s) ==
    IF UGt(s.cr_current_time, s.current_pulse_time, 3000 * 1000)
    THEN [s EXCEPT !.current_rpm = 0, !.filtered_rpm = 0,
                   !.pc = "cr_to_sum"]
    ELSE [s EXCEPT !.pc = "cr_check"]

\* if (current_time - current_pulse_time > RPM_TIMEOUT_MS * 1000)
\*     { current_rpm = 0; filtered_rpm = 0; ...
CrTimeout(s) ==
    IF UGt(s.cr_current_time, s.current_pulse_time, RPM_TIMEOUT_MS * 1000)
    THEN [s EXCEPT !.current_rpm = 0, !.filtered_rpm = 0,
                   !.pc = "cr_to_sum"]
    ELSE [s EXCEPT !.pc = "cr_check"]

\* ... pulse_interval_sum = 0;
CrResetSum(s, next) ==
    [s EXCEPT !.pulse_interval_sum = 0, !.h_sum_n = 0, !.pc = next]

\* ... pulse_intervals_count = 0; and the function returns
CrResetCount(s) ==
    [s EXCEPT !.pulse_intervals_count = 0, !.pc = s.cr_ret]

\* if (pulse_intervals_count > 0)
CrCheck(s) ==
    IF s.pulse_intervals_count > 0
    THEN [s EXCEPT !.pc = "cr_read_sum"]
    ELSE [s EXCEPT !.pc = s.cr_ret]

\* avg_interval = pulse_interval_sum / pulse_intervals_count: the two
\* volatile reads, the dividend first.
CrReadSum(s) ==
    [s EXCEPT !.cr_sum = s.pulse_interval_sum, !.cr_sum_n = s.h_sum_n,
              !.pc = "cr_read_count"]

CrReadCount(s) ==
    [s EXCEPT !.cr_count = s.pulse_intervals_count, !.pc = "cr_compute"]

\* (60.0f * 1000000.0f) / avg_interval / pulses_per_rev * gear_ratio: the
\* quotients in whole RPM, and the product with the ratio's tenths in tenths
\* of an RPM.
NewRpm(avg_interval, set) ==
    ((60000000 \div avg_interval) \div set.pulses_per_rev) * set.gear_ratio

\* The average with the two weights exchanged.
EmaWeightsExchanged(filtered, new_rpm, strength) ==
    (filtered * (10 - strength) + new_rpm * strength) \div 10

\* filtered_rpm * filter_alpha + new_rpm * (1.0f - filter_alpha)
Ema(filtered, new_rpm, strength) ==
    (filtered * strength + new_rpm * (10 - strength)) \div 10

\* The computation that filters at every filter_strength.
CrComputeAlwaysFilters(s) ==
    LET avg_interval == s.cr_sum \div s.cr_count IN
    IF avg_interval > 0
    THEN LET new_rpm == NewRpm(avg_interval, s.settings)
             rapid_deceleration ==
                 s.previous_rpm > 100 /\ 10 * new_rpm < s.previous_rpm * 7
         IN IF ~rapid_deceleration
            THEN LET f == IF s.filtered_rpm = 0
                          THEN new_rpm
                          ELSE Ema(s.filtered_rpm, new_rpm, 5)
                 IN [s EXCEPT !.filtered_rpm = f, !.current_rpm = f,
                              !.pc = "cr_reset_sum"]
            ELSE [s EXCEPT !.current_rpm = new_rpm, !.filtered_rpm = new_rpm,
                           !.pc = "cr_reset_sum"]
    ELSE [s EXCEPT !.pc = "cr_reset_sum"]

\* The computation without the test of rapid deceleration.
CrComputeNoBypass(s) ==
    LET avg_interval == s.cr_sum \div s.cr_count IN
    IF avg_interval > 0
    THEN LET new_rpm == NewRpm(avg_interval, s.settings)
         IN IF s.settings.filter_strength > 0
            THEN LET f == IF s.filtered_rpm = 0
                          THEN new_rpm
                          ELSE Ema(s.filtered_rpm, new_rpm,
                                   s.settings.filter_strength)
                 IN [s EXCEPT !.filtered_rpm = f, !.current_rpm = f,
                              !.pc = "cr_reset_sum"]
            ELSE [s EXCEPT !.current_rpm = new_rpm, !.filtered_rpm = new_rpm,
                           !.pc = "cr_reset_sum"]
    ELSE [s EXCEPT !.pc = "cr_reset_sum"]

CrCompute(s) ==
    LET avg_interval == s.cr_sum \div s.cr_count IN
    IF avg_interval > 0
    THEN LET new_rpm == NewRpm(avg_interval, s.settings)
             rapid_deceleration ==
                 s.previous_rpm > 100 /\ 10 * new_rpm < s.previous_rpm * 7
         IN IF s.settings.filter_strength > 0 /\ ~rapid_deceleration
            THEN LET f == IF s.filtered_rpm = 0
                          THEN new_rpm
                          ELSE Ema(s.filtered_rpm, new_rpm,
                                   s.settings.filter_strength)
                 IN [s EXCEPT !.filtered_rpm = f, !.current_rpm = f,
                              !.pc = "cr_reset_sum"]
            ELSE [s EXCEPT !.current_rpm = new_rpm, !.filtered_rpm = new_rpm,
                           !.pc = "cr_reset_sum"]
    ELSE [s EXCEPT !.pc = "cr_reset_sum"]

---------------------------------------------------------------------------
(* main(): setup(), then the loop                                          *)

\* setup() up to the enabling of the interrupts.
Setup(s) == [load_settings(s) EXCEPT !.gpio_irq_on = TRUE, !.pc = "welcome"]

\* uint32_t current_time = to_ms_since_boot(get_absolute_time());
LoopTop(s, t) ==
    [s EXCEPT !.current_time = to_ms_since_boot(t), !.pc = "pb_sample"]

\* if (rpm_data_ready) { calculate_rpm(); rpm_data_ready = false; }
RpmReady(s) ==
    IF s.rpm_data_ready
    THEN [s EXCEPT !.cr_ret = "rpm_clear", !.pc = "cr_entry"]
    ELSE [s EXCEPT !.pc = "timeout_check"]

\* The locals of a call that has returned are dead: they are zeroed.
CrLocalsDead(s) ==
    [s EXCEPT !.cr_current_time = 0, !.previous_rpm = 0, !.cr_sum = 0,
              !.cr_count = 0, !.cr_sum_n = 0]

RpmClear(s) ==
    [CrLocalsDead(s) EXCEPT !.rpm_data_ready = FALSE, !.pc = "timeout_check"]

\* if (current_time - last_timeout_check >= RPM_TIMEOUT_CHECK_MS)
\*     { calculate_rpm(); last_timeout_check = current_time; }
TimeoutCheck(s) ==
    IF UGe(s.current_time, s.last_timeout_check, RPM_TIMEOUT_CHECK_MS)
    THEN [s EXCEPT !.cr_ret = "timeout_done", !.pc = "cr_entry"]
    ELSE [s EXCEPT !.pc = "display"]

TimeoutDone(s) ==
    [CrLocalsDead(s) EXCEPT !.last_timeout_check = s.current_time,
                            !.pc = "display"]

\* The display update whose menu timeout leaves the menu without
\* save_settings().
DisplayNoSave(s) ==
    IF UGe(s.current_time, s.last_display_update, DISPLAY_UPDATE_INTERVAL)
    THEN LET a ==
               IF s.current_menu # "MENU_NONE"
                  /\ UGe(s.current_time, s.menu_last_activity, MENU_TIMEOUT)
               THEN [s EXCEPT !.current_menu = "MENU_NONE"]
               ELSE s
         IN [a EXCEPT !.last_display_update = s.current_time, !.pc = "sleep"]
    ELSE [s EXCEPT !.pc = "sleep"]

\* The display update; display_rpm() and display_menu() only read.
Display(s) ==
    IF UGe(s.current_time, s.last_display_update, DISPLAY_UPDATE_INTERVAL)
    THEN LET a ==
               IF s.current_menu # "MENU_NONE"
                  /\ UGe(s.current_time, s.menu_last_activity, MENU_TIMEOUT)
               THEN save_settings([s EXCEPT !.current_menu = "MENU_NONE"])
               ELSE s
         IN [a EXCEPT !.last_display_update = s.current_time, !.pc = "sleep"]
    ELSE [s EXCEPT !.pc = "sleep"]

\* One step of the foreground at time t.
FgStep(s, t) ==
    CASE s.pc = "setup" -> Setup(s)
      [] s.pc = "welcome" -> [s EXCEPT !.h_saves = 0, !.pc = "loop"]
      [] s.pc = "loop" -> LoopTop(s, t)
      [] s.pc = "pb_sample" -> [PbSample(s, t) EXCEPT !.pc = "pb_up_long"]
      [] s.pc = "pb_up_long" -> [PbUpLong(s) EXCEPT !.pc = "pb_down_long"]
      [] s.pc = "pb_down_long" -> [PbDownLong(s) EXCEPT !.pc = "pb_up_short"]
      [] s.pc = "pb_up_short" -> PbUpShortCheck(s)
      [] s.pc = "pb_up_short_body" -> PbUpShortBody(s)
      [] s.pc = "pb_down_short" -> PbDownShortCheck(s)
      [] s.pc = "pb_down_short_body" -> PbDownShortBody(s)
      [] s.pc = "pb_return" -> PbReturn(s)
      [] s.pc = "rpm_ready" -> RpmReady(s)
      [] s.pc = "rpm_clear" -> RpmClear(s)
      [] s.pc = "timeout_check" -> TimeoutCheck(s)
      [] s.pc = "timeout_done" -> TimeoutDone(s)
      [] s.pc = "cr_entry" -> CrEntry(s, t)
      [] s.pc = "cr_timeout" -> CrTimeout(s)
      [] s.pc = "cr_to_sum" -> CrResetSum(s, "cr_to_count")
      [] s.pc = "cr_to_count" -> CrResetCount(s)
      [] s.pc = "cr_check" -> CrCheck(s)
      [] s.pc = "cr_read_sum" -> CrReadSum(s)
      [] s.pc = "cr_read_count" -> CrReadCount(s)
      [] s.pc = "cr_compute" -> CrCompute(s)
      [] s.pc = "cr_reset_sum" -> CrResetSum(s, "cr_reset_count")
      [] s.pc = "cr_reset_count" -> CrResetCount(s)
      [] s.pc = "display" -> Display(s)
      [] s.pc = "sleep" -> [s EXCEPT !.current_time = 0, !.h_saves = 0,
                                     !.h_polled = TRUE, !.pc = "loop"]

\* The foreground run from s, all of it at time t, up to the next place in
\* stops.
RECURSIVE FgRun(_, _, _)
FgRun(s, t, stops) ==
    LET n == FgStep(s, t) IN
    IF n.pc \in stops THEN n ELSE FgRun(n, t, stops)

---------------------------------------------------------------------------
(* Initial state: the statics of the program as the C++ start-up code      *)
(* leaves them, and the flash sector as an earlier run left it.            *)

ZeroSettings ==
    [magic_number |-> <<0, 0>>, pulses_per_rev |-> 0, gear_ratio |-> 0,
     show_decimal |-> FALSE, filter_strength |-> 0,
     workpiece_diameter |-> 0, use_inches |-> FALSE]

\* The flash sector at boot: erased, or the record of an earlier run.
FlashAtBoot == {ErasedFlash, DefaultSettings}

InitState(flash) ==
    [pc |-> "setup",
     pulse_count |-> 0, last_pulse_time |-> 0, current_pulse_time |-> 0,
     pulse_interval_sum |-> 0, pulse_intervals_count |-> 0,
     rpm_data_ready |-> FALSE, current_rpm |-> 0, filtered_rpm |-> 0,
     settings |-> ZeroSettings, flash |-> flash,
     button_up_pressed |-> FALSE, button_down_pressed |-> FALSE,
     button_up_press_time |-> 0, button_down_press_time |-> 0,
     button_up_long_press |-> FALSE, button_down_long_press |-> FALSE,
     button_up_handled |-> FALSE, button_down_handled |-> FALSE,
     current_menu |-> "MENU_NONE", menu_last_activity |-> 0,
     current_time |-> 0, last_display_update |-> 0, last_timeout_check |-> 0,
     pb_current_time |-> 0, ms_time |-> 0,
     cr_current_time |-> 0, previous_rpm |-> 0, cr_sum |-> 0, cr_count |-> 0,
     cr_ret |-> "timeout_done",
     \* observers
     h_saves |-> 0, h_edges |-> 0, h_welcome |-> 0,
     h_up_fires |-> 0, h_down_fires |-> 0,
     h_up_acts |-> 0, h_down_acts |-> 0, h_held_acts |-> 0,
     h_up_cycles |-> 0, h_down_cycles |-> 0,
     h_up_short |-> 0, h_down_short |-> 0,
     h_sum_n |-> 0, cr_sum_n |-> 0, h_polled |-> FALSE,
     h_taps |-> <<>>,
     \* the interrupt mask, the GPIO interrupt, the edges that wait for the
     \* mask, and the locals of save_settings()
     irq_enabled |-> TRUE, gpio_irq_on |-> FALSE, irq_pend |-> {},
     ss_data |-> ZeroSettings, ss_ints |-> TRUE, ss_k |-> 0,
     ss_ret |-> "setup_irq",
     \* observers of the flash sector
     h_flash |-> "found", h_committed |-> ZeroSettings, h_boots |-> 0,
     h_adjusts |-> 0, h_isr_runs |-> 0, h_isr_in_flash |-> FALSE,
     h_deferred |-> 0,
     \* the gap between the pulses of a steady shaft and the intervals it
     \* leaves in the accumulator
     h_gap |-> 0, h_intervals |-> 0,
     \* calculate_rpm() has taken its timeout branch since the last pulse
     h_timed_out |-> FALSE]

\* A first boot: the flash sector holds no settings yet.
Init ==
    /\ now = 0
    /\ st = InitState(ErasedFlash)

\* A boot with either content of the flash sector.
InitMenu ==
    /\ now = 0
    /\ \E flash \in FlashAtBoot : st = InitState(flash)

---------------------------------------------------------------------------
(* Actions                                                                 *)

\* The timer advances by one quantum.
Tick ==
    /\ now + TickMs * 1000 <= MaxTimeMs * 1000
    /\ now' = now + TickMs * 1000
    /\ UNCHANGED st

\* The foreground, run with no interrupt from where it is to the next place
\* in stops.
FgTo(stops) == FgRun(st, now, stops)

\* setup(): busy_wait_ms(500), the display, load_settings(), the interrupts.
SetupStep ==
    /\ st.pc = "setup"
    /\ now' = now + SETUP_WAIT_MS * 1000
    /\ st' = [Setup(st) EXCEPT !.h_welcome = now']

\* The welcome screen and its busy_wait_ms(2000).
WelcomeStep ==
    /\ st.pc = "welcome"
    /\ now >= st.h_welcome + WELCOME_WAIT_MS * 1000
    /\ st' = FgTo({"loop"})
    /\ UNCHANGED now

\* What the observers note of a button edge handled at time t.
ObserveEdge(s, n, gpio, ev, t) ==
    LET up == gpio = BUTTON_UP_PIN
        fall == ev = GPIO_IRQ_EDGE_FALL
        short == IF up
                 THEN t - s.button_up_press_time < LONG_PRESS_TIME * 1000
                 ELSE t - s.button_down_press_time < LONG_PRESS_TIME * 1000
    IN [n EXCEPT
          !.h_edges = @ + 1,
          !.h_up_fires = IF up /\ fall THEN 0 ELSE @,
          !.h_down_fires = IF ~up /\ fall THEN 0 ELSE @,
          !.h_up_cycles = IF up /\ ~fall THEN @ + 1 ELSE @,
          !.h_down_cycles = IF ~up /\ ~fall THEN @ + 1 ELSE @,
          !.h_up_short = IF up /\ ~fall /\ short THEN @ + 1 ELSE @,
          !.h_down_short = IF ~up /\ ~fall /\ short THEN @ + 1 ELSE @]

\* A button edge: the buttons are active-low, a press is a falling edge.  The
\* pressed flag is written by the handler alone, so it is the button's
\* physical state.
ButtonEdge ==
    /\ st.pc # "setup"
    /\ st.h_edges < MaxEdges
    /\ \E gpio \in {BUTTON_UP_PIN, BUTTON_DOWN_PIN},
          ev \in {GPIO_IRQ_EDGE_FALL, GPIO_IRQ_EDGE_RISE} :
          /\ (ev = GPIO_IRQ_EDGE_FALL) =
                ~(IF gpio = BUTTON_UP_PIN THEN st.button_up_pressed
                                          ELSE st.button_down_pressed)
          /\ now' = now + IsrLatencyUs
          /\ st' = ObserveEdge(st, gpio_callback(st, gpio, {ev}, now'),
                               gpio, ev, now')

LoopTopStep ==
    /\ st.pc = "loop"
    /\ st' = FgTo({"pb_sample"})
    /\ UNCHANGED now

PbSampleStep ==
    /\ st.pc = "pb_sample"
    /\ st' = FgTo({"pb_up_long"})
    /\ UNCHANGED now

PbUpLongStep ==
    /\ st.pc = "pb_up_long"
    /\ st' = FgTo({"pb_down_long"})
    /\ UNCHANGED now

PbDownLongStep ==
    /\ st.pc = "pb_down_long"
    /\ st' = FgTo({"pb_up_short"})
    /\ UNCHANGED now

\* The test of the UP short press; with it false, on to the DOWN test.
PbUpShortStep ==
    /\ st.pc = "pb_up_short"
    /\ st' = FgTo({"pb_up_short_body", "pb_down_short"})
    /\ UNCHANGED now

PbUpShortBodyStep ==
    /\ st.pc = "pb_up_short_body"
    /\ st' = FgTo({"pb_down_short"})
    /\ UNCHANGED now

\* The test of the DOWN short press; with it false, process_buttons() returns.
PbDownShortStep ==
    /\ st.pc = "pb_down_short"
    /\ st' = FgTo({"pb_down_short_body", "rpm_ready"})
    /\ UNCHANGED now

PbDownShortBodyStep ==
    /\ st.pc = "pb_down_short_body"
    /\ st' = FgTo({"rpm_ready"})
    /\ UNCHANGED now

\* The RPM part of the loop: both calculate_rpm() calls.
RpmPart ==
    /\ st.pc = "rpm_ready"
    /\ st' = FgTo({"display"})
    /\ UNCHANGED now

\* The display update and the menu timeout.
DisplayStep ==
    /\ st.pc = "display"
    /\ st' = FgTo({"sleep"})
    /\ UNCHANGED now

\* sleep_ms(5) and the way back to the top of the loop.
SleepStep ==
    /\ st.pc = "sleep"
    /\ st' = FgTo({"loop"})
    /\ UNCHANGED now

\* The buttons against the foreground: the interrupt may come between any
\* two of the steps of process_buttons().
Next ==
    \/ Tick
    \/ SetupStep
    \/ WelcomeStep
    \/ ButtonEdge
    \/ LoopTopStep
    \/ PbSampleStep
    \/ PbUpLongStep
    \/ PbDownLongStep
    \/ PbUpShortStep
    \/ PbUpShortBodyStep
    \/ PbDownShortStep
    \/ PbDownShortBodyStep
    \/ RpmPart
    \/ DisplayStep
    \/ SleepStep

Spec == Init /\ [][Next]_vars

---------------------------------------------------------------------------
(* The sensor against the foreground (specification SpecRpm): the          *)
(* interrupt may come between any two statements of calculate_rpm() and    *)
(* of the RPM part of the loop.                                            *)

\* A falling edge of the hall sensor.
SensorEdge ==
    /\ st.pc # "setup"
    /\ st.pulse_count < MaxPulses
    /\ now' = now + PulseGapUs
    /\ st' = gpio_callback(st, HALL_SENSOR_PIN, {GPIO_IRQ_EDGE_FALL}, now')

\* The time sample and process_buttons(): no button is touched here.
ButtonsPart ==
    /\ st.pc = "loop"
    /\ st' = FgTo({"rpm_ready"})
    /\ UNCHANGED now

RpmReadyStep ==
    /\ st.pc = "rpm_ready"
    /\ st' = FgStep(st, now)
    /\ UNCHANGED now

RpmClearStep ==
    /\ st.pc = "rpm_clear"
    /\ st' = FgStep(st, now)
    /\ UNCHANGED now

TimeoutCheckStep ==
    /\ st.pc = "timeout_check"
    /\ st' = FgStep(st, now)
    /\ UNCHANGED now

TimeoutDoneStep ==
    /\ st.pc = "timeout_done"
    /\ st' = FgStep(st, now)
    /\ UNCHANGED now

CrEntryStep ==
    /\ st.pc = "cr_entry"
    /\ st' = FgStep(st, now)
    /\ UNCHANGED now

CrTimeoutStep ==
    /\ st.pc = "cr_timeout"
    /\ st' = FgStep(st, now)
    /\ UNCHANGED now

CrTimeoutResetSumStep ==
    /\ st.pc = "cr_to_sum"
    /\ st' = FgStep(st, now)
    /\ UNCHANGED now

CrTimeoutResetCountStep ==
    /\ st.pc = "cr_to_count"
    /\ st' = FgStep(st, now)
    /\ UNCHANGED now

CrCheckStep ==
    /\ st.pc = "cr_check"
    /\ st' = FgStep(st, now)
    /\ UNCHANGED now

CrReadSumStep ==
    /\ st.pc = "cr_read_sum"
    /\ st' = FgStep(st, now)
    /\ UNCHANGED now

CrReadCountStep ==
    /\ st.pc = "cr_read_count"
    /\ st' = FgStep(st, now)
    /\ UNCHANGED now

CrComputeStep ==
    /\ st.pc = "cr_compute"
    /\ st' = FgStep(st, now)
    /\ UNCHANGED now

CrResetSumStep ==
    /\ st.pc = "cr_reset_sum"
    /\ st' = FgStep(st, now)
    /\ UNCHANGED now

CrResetCountStep ==
    /\ st.pc = "cr_reset_count"
    /\ st' = FgStep(st, now)
    /\ UNCHANGED now

NextRpm ==
    \/ Tick
    \/ SetupStep
    \/ WelcomeStep
    \/ SensorEdge
    \/ ButtonsPart
    \/ RpmReadyStep
    \/ RpmClearStep
    \/ TimeoutCheckStep
    \/ TimeoutDoneStep
    \/ CrEntryStep
    \/ CrTimeoutStep
    \/ CrTimeoutResetSumStep
    \/ CrTimeoutResetCountStep
    \/ CrCheckStep
    \/ CrReadSumStep
    \/ CrReadCountStep
    \/ CrComputeStep
    \/ CrResetSumStep
    \/ CrResetCountStep
    \/ DisplayStep
    \/ SleepStep

SpecRpm == Init /\ [][NextRpm]_vars

---------------------------------------------------------------------------
(* The menu over a long run (specification SpecMenu): the loop runs an     *)
(* iteration statement by statement, the timer and the buttons move        *)
(* between two iterations.                                                 *)

\* The loop comes round every few milliseconds (sleep_ms(5)), so it has run
\* (h_polled) since the last event when the next quantum of time has passed.
TickMenu ==
    /\ st.pc \in {"welcome", "loop"}
    /\ st.pc = "loop" => st.h_polled
    /\ now + MenuTickMs * 1000 <= MaxMenuTimeMs * 1000
    /\ now' = now + MenuTickMs * 1000
    /\ st' = [st EXCEPT !.h_polled = FALSE]

\* What the observers note of a button edge between two iterations.
ObserveMenuEdge(s, n, gpio, ev, t) ==
    LET up == gpio = BUTTON_UP_PIN
        fall == ev = GPIO_IRQ_EDGE_FALL
    IN [n EXCEPT
          !.h_polled = FALSE,
          !.h_up_fires = IF up /\ fall THEN 0 ELSE @,
          !.h_down_fires = IF ~up /\ fall THEN 0 ELSE @,
          !.h_down_cycles = IF ~up /\ ~fall THEN @ + 1 ELSE @,
          !.h_up_short =
              IF up /\ ~fall /\ t - s.button_up_press_time
                                  < LONG_PRESS_TIME * 1000
              THEN @ + 1 ELSE @,
          !.h_down_short =
              IF ~up /\ ~fall /\ t - s.button_down_press_time
                                   < LONG_PRESS_TIME * 1000
              THEN @ + 1 ELSE @]

\* A button edge between two iterations of the loop: one button is held at
\* a time, and at most MaxOtherGestures gestures (the short presses of UP
\* and the presses of DOWN) are not a long press of UP.
MenuButtonEdge ==
    /\ st.pc \in {"welcome", "loop"}
    /\ \E gpio \in {BUTTON_UP_PIN, BUTTON_DOWN_PIN},
          ev \in {GPIO_IRQ_EDGE_FALL, GPIO_IRQ_EDGE_RISE} :
          /\ (ev = GPIO_IRQ_EDGE_FALL) =
                ~(IF gpio = BUTTON_UP_PIN THEN st.button_up_pressed
                                          ELSE st.button_down_pressed)
          /\ ev = GPIO_IRQ_EDGE_FALL
                => ~st.button_up_pressed /\ ~st.button_down_pressed
          /\ (gpio = BUTTON_DOWN_PIN /\ ev = GPIO_IRQ_EDGE_FALL)
                => st.h_up_short + st.h_down_cycles < MaxOtherGestures
          /\ st' = ObserveMenuEdge(st, gpio_callback(st, gpio, {ev}, now),
                                   gpio, ev, now)
          /\ st'.h_up_short + st'.h_down_cycles <= MaxOtherGestures
          /\ UNCHANGED now

MenuNext ==
    \/ TickMenu
    \/ SetupStep
    \/ WelcomeStep
    \/ MenuButtonEdge
    \/ LoopTopStep
    \/ PbSampleStep
    \/ PbUpLongStep
    \/ PbDownLongStep
    \/ PbUpShortStep
    \/ PbUpShortBodyStep
    \/ PbDownShortStep
    \/ PbDownShortBodyStep
    \/ RpmPart
    \/ DisplayStep
    \/ SleepStep

SpecMenu == InitMenu /\ [][MenuNext]_vars

---------------------------------------------------------------------------
(* Claims about the pulse accumulator (specification SpecRpm)              *)

\* C1: a periodic calculate_rpm() call that samples the time more than
\* RPM_TIMEOUT_MS after the last pulse, with no pulse during the call,
\* returns with current_rpm, filtered_rpm, pulse_interval_sum and
\* pulse_intervals_count all zero.
C1_TimeoutZeroes ==
    (/\ st.pc = "timeout_done"
     /\ st.cr_current_time >= st.current_pulse_time
     /\ st.cr_current_time - st.current_pulse_time > RPM_TIMEOUT_MS * 1000)
    => /\ st.current_rpm = 0
       /\ st.filtered_rpm = 0
       /\ st.pulse_interval_sum = 0
       /\ st.pulse_intervals_count = 0

\* The periodic call has just zeroed an RPM that was not zero.
C1_Witness ==
    /\ st.pc = "timeout_done"
    /\ st.cr_current_time - st.current_pulse_time > RPM_TIMEOUT_MS * 1000
    /\ st.current_pulse_time > 0
    /\ st.previous_rpm > 0
    /\ st.current_rpm = 0

\* C2: whenever pulse_intervals_count is zero, pulse_interval_sum is zero.
C2_ResetTogether ==
    st.pulse_intervals_count = 0 => st.pulse_interval_sum = 0

\* C3: the sum and the count that calculate_rpm() divides are a matched
\* snapshot: the sum read holds exactly as many intervals (cr_sum_n) as the
\* count read says.
C3_MatchedSnapshot ==
    st.pc = "cr_compute" => st.cr_count = st.cr_sum_n

---------------------------------------------------------------------------
(* Claims about the buttons (specification Spec)                           *)

\* C4: the long-press action of a button fires only when the button is
\* pressed and at least LONG_PRESS_TIME has passed since its last press edge.
C4_LongPressOnlyAfterHold ==
    [][/\ st'.h_up_fires > st.h_up_fires =>
            /\ st.button_up_pressed
            /\ now - st.button_up_press_time >= LONG_PRESS_TIME * 1000
       /\ st'.h_down_fires > st.h_down_fires =>
            /\ st.button_down_pressed
            /\ now - st.button_down_press_time >= LONG_PRESS_TIME * 1000]_vars

\* C5: between two press edges of a button its long-press action fires at
\* most once (h_up_fires and h_down_fires count the firings since the
\* button's last press edge).
C5_LongPressAtMostOnce ==
    st.h_up_fires <= 1 /\ st.h_down_fires <= 1

\* UP is still held, its long press has fired, and a later call of
\* process_buttons() (a later millisecond than the firing one, which wrote
\* menu_last_activity) has gone through the long-press test again.
C5_Witness ==
    /\ st.pc = "pb_down_long"
    /\ st.button_up_pressed
    /\ st.button_up_long_press
    /\ st.h_up_fires = 1
    /\ st.ms_time > st.menu_last_activity

\* C6: a call of process_buttons() that finds a button released with a
\* completed short press (held for less than LONG_PRESS_TIME) not yet acted
\* on performs the short-press action for it.
C6_ShortPressRecognized ==
    [][/\ (/\ st.pc = "pb_up_short"
           /\ st'.pc # "pb_up_short"
           /\ ~st.button_up_pressed
           /\ st.h_up_short > st.h_up_acts)
          => st'.pc = "pb_up_short_body"
       /\ (/\ st.pc = "pb_up_short_body"
           /\ st'.pc # "pb_up_short_body"
           /\ ~st.button_up_pressed
           /\ st.h_up_short > st.h_up_acts)
          => st'.h_up_acts = st.h_up_acts + 1]_vars

\* C7: the short-press actions of a button never outnumber its completed
\* press/release cycles, and none is performed while the button is held.
C7_ShortAtMostOncePerCycle ==
    /\ st.h_up_acts <= st.h_up_cycles
    /\ st.h_down_acts <= st.h_down_cycles
    /\ st.h_held_acts = 0

\* UP has had one short press acted on, and process_buttons() has run again
\* later without a new edge.
C7_Witness ==
    /\ st.h_up_acts = 1 /\ st.h_up_cycles = 1
    /\ st.button_up_handled /\ ~st.button_up_pressed
    /\ st.pc = "pb_down_short"
    /\ st.pb_current_time > st.button_up_press_time + TickMs * 1000


---------------------------------------------------------------------------
(* Claims about the menu (specification SpecMenu)                          *)

\* The place of a menu state in the enum.
MenuIndex(m) == CHOOSE i \in 1..Len(MenuOrder) : MenuOrder[i] = m

\* The menu state after m in the enum, MENU_NONE after the last.
MenuAfter(m) == MenuOrder[(MenuIndex(m) % Len(MenuOrder)) + 1]

\* C8: every long press of UP moves current_menu to the next state of the
\* enum (NONE, PULSES, RATIO, DECIMAL, FILTER, DIAMETER, UNITS), and the one
\* after MENU_UNITS goes back to MENU_NONE and calls save_settings().
C8_UpLongPressCycles ==
    [][st'.h_up_fires > st.h_up_fires =>
         /\ st'.current_menu = MenuAfter(st.current_menu)
         /\ st.current_menu = "MENU_UNITS" =>
              /\ st'.current_menu = "MENU_NONE"
              /\ st'.h_saves = st.h_saves + 1
              /\ st'.flash = st.settings]_vars

\* The seventh long press of UP in a row has just brought the menu from
\* MENU_UNITS back to MENU_NONE and saved.
C8_Witness ==
    /\ st.pc = "pb_down_long"
    /\ st.button_up_pressed
    /\ st.h_up_fires = 1
    /\ st.menu_last_activity = st.ms_time
    /\ st.current_menu = "MENU_NONE"
    /\ st.h_saves = 1

\* C9: a display update that is due and finds a menu open and no activity
\* for MENU_TIMEOUT closes the menu and calls save_settings() once.
C9_MenuTimeoutExit ==
    [][(/\ st.pc = "display"
        /\ st'.pc # "display"
        /\ to_ms_since_boot(now) - st.last_display_update
              >= DISPLAY_UPDATE_INTERVAL
        /\ st.current_menu # "MENU_NONE"
        /\ to_ms_since_boot(now) >= st.menu_last_activity
        /\ to_ms_since_boot(now) - st.menu_last_activity >= MENU_TIMEOUT)
       => /\ st'.current_menu = "MENU_NONE"
          /\ st'.h_saves = st.h_saves + 1
          /\ st'.flash = st.settings]_vars

\* The menu was open, nothing happened for MENU_TIMEOUT, and the iteration
\* that ends here has closed it and saved, with no button held.
C9_Witness ==
    /\ st.pc = "sleep"
    /\ st.h_saves = 1
    /\ st.current_menu = "MENU_NONE"
    /\ st.menu_last_activity > 0
    /\ st.current_time - st.menu_last_activity >= MENU_TIMEOUT
    /\ ~st.button_up_pressed /\ ~st.button_down_pressed

\* The steps that the claims about save_settings() speak of.
Saved == st'.h_saves = st.h_saves + 1

DownLongPressExit ==
    st'.h_down_fires = st.h_down_fires + 1 /\ st.current_menu # "MENU_NONE"

MenuTimeoutExit ==
    /\ st.pc = "display"
    /\ st.current_menu # "MENU_NONE"
    /\ st'.current_menu = "MENU_NONE"

DirectDiameterAdjust ==
    /\ st.current_menu = "MENU_NONE"
    /\ \/ st'.h_up_acts = st.h_up_acts + 1
       \/ st'.h_down_acts = st.h_down_acts + 1

UpLongPressWrap ==
    st'.h_up_fires = st.h_up_fires + 1 /\ st.current_menu = "MENU_UNITS"

BootWithoutSettings ==
    st.pc = "setup" /\ st.flash.magic_number # SETTINGS_MAGIC

\* C10 as stated: a step calls save_settings() exactly when it is a DOWN
\* long press leaving the menu, a menu timeout, or a direct diameter
\* adjustment in MENU_NONE.
C10_SaveOnThreeEvents ==
    [][Saved <=> (DownLongPressExit \/ MenuTimeoutExit
                    \/ DirectDiameterAdjust)]_vars

\* C10 amended: a step calls save_settings() exactly when it is one of the
\* three events above, the UP long press that leaves MENU_UNITS, or the
\* boot that finds no valid record in flash; and it calls it once.
C10_SaveOnFiveEvents ==
    [][/\ Saved <=> (DownLongPressExit \/ MenuTimeoutExit
                       \/ DirectDiameterAdjust \/ UpLongPressWrap
                       \/ BootWithoutSettings)
       /\ st'.h_saves \in {0, st.h_saves, st.h_saves + 1}]_vars

\* The boot has found the sector erased and has saved the defaults.
C10_Witness ==
    /\ st.pc = "welcome"
    /\ st.h_saves = 1
    /\ st.settings = DefaultSettings
    /\ st.flash = DefaultSettings

---------------------------------------------------------------------------
(* The settings under the buttons (specification SpecEdit): the device     *)
(* boots with the record an earlier run left in flash and is then operated *)
(* by whole gestures, each run through gpio_callback and the loop.         *)

\* The records an earlier run can have saved, one field away from the
\* defaults: every value of each field that the menu can reach.
RecordsAtBoot ==
    {[DefaultSettings EXCEPT !.pulses_per_rev = p] : p \in 1..66}
    \cup {[DefaultSettings EXCEPT !.gear_ratio = r] : r \in 1..100}
    \cup {[DefaultSettings EXCEPT !.filter_strength = f] : f \in 0..10}
    \cup {[DefaultSettings EXCEPT !.workpiece_diameter = d * 1000] :
              d \in 1..300}
    \cup {[DefaultSettings EXCEPT !.use_inches = TRUE,
                                  !.workpiece_diameter = e * 125] :
              e \in 1..96}

\* The first arrival at the top of the loop, after setup().
InitEdit ==
    /\ now = (SETUP_WAIT_MS + WELCOME_WAIT_MS) * 1000
    /\ \E rec \in RecordsAtBoot :
          st = FgRun(InitState(rec), now, {"loop"})

\* One iteration of the loop at time t.
Iteration(s, t) == FgRun(s, t, {"loop"})

\* A tap: the button goes down, the loop polls, the button comes up TapMs
\* later, the loop polls.  h_taps notes the menu and the settings before
\* and after, the calls of save_settings() in the iteration after the
\* release, and the flash record it leaves.
Tap(gpio) ==
    /\ st.pc = "loop"
    /\ Len(st.h_taps) < MaxTaps
    /\ now' = now + TapMs * 1000
    /\ \E a \in {Iteration(gpio_callback(st, gpio, {GPIO_IRQ_EDGE_FALL}, now),
                             now)} :
       \E r \in {FgRun(gpio_callback(a, gpio, {GPIO_IRQ_EDGE_RISE}, now'),
                        now', {"sleep"})} :
       \E b \in {FgRun(r, now', {"loop"})} :
          st' = [b EXCEPT !.h_taps =
                    Append(@, [menu |-> st.current_menu,
                               up |-> gpio = BUTTON_UP_PIN,
                               before |-> st.settings,
                               after |-> b.settings,
                               menu_after |-> b.current_menu,
                               saves |-> r.h_saves,
                               flash |-> b.flash])]

TapUp == Tap(BUTTON_UP_PIN)

TapDown == Tap(BUTTON_DOWN_PIN)

\* UP held for LONG_PRESS_TIME and let go: the loop polls at the press, at
\* the end of the hold and after the release.  A run first moves through
\* the menu and then taps.
HoldUp ==
    /\ st.pc = "loop"
    /\ st.h_taps = <<>>
    /\ now + LONG_PRESS_TIME * 1000 <= MaxEditTimeMs * 1000
    /\ now' = now + LONG_PRESS_TIME * 1000
    /\ LET a == Iteration(gpio_callback(st, BUTTON_UP_PIN,
                                        {GPIO_IRQ_EDGE_FALL}, now), now)
           b == Iteration(a, now')
       IN st' = Iteration(gpio_callback(b, BUTTON_UP_PIN,
                                        {GPIO_IRQ_EDGE_RISE}, now'), now')

EditNext ==
    \/ TapUp
    \/ TapDown
    \/ HoldUp

SpecEdit == InitEdit /\ [][EditNext]_vars

\* C12: after setup() has loaded the settings, between two gestures,
\* pulses_per_rev is in 1..66, filter_strength in 0..10 and gear_ratio,
\* counted in tenths, in 1..100 (0.1 to 10.0).
C12_FieldsInRange ==
    /\ st.settings.pulses_per_rev \in 1..66
    /\ st.settings.filter_strength \in 0..10
    /\ st.settings.gear_ratio \in 1..100

\* The last tap of the run.
LastTap == st.h_taps[Len(st.h_taps)]

\* UP in MENU_RATIO at 10.0 has wrapped the gear ratio to 0.1.
C12_Witness ==
    /\ Len(st.h_taps) > 0
    /\ LastTap.menu = "MENU_RATIO"
    /\ LastTap.up
    /\ LastTap.before.gear_ratio = 100
    /\ st.settings.gear_ratio = 1

\* C13: workpiece_diameter is within the bounds of the unit in use, 0.125
\* to 12.0 inches or 1 to 300 mm.
C13_DiameterInRange ==
    IF st.settings.use_inches
    THEN st.settings.workpiece_diameter \in 125..12000
    ELSE st.settings.workpiece_diameter \in 1000..300000

\* What a wrapping step up or down makes of v in lo..hi.
WrapStep(v, up, lo, hi) ==
    IF up THEN (IF v = hi THEN lo ELSE v + 1)
          ELSE (IF v = lo THEN hi ELSE v - 1)

\* C14: a tap in MENU_FILTER steps filter_strength by one and wraps it from
\* 10 to 0 (UP) and from 0 to 10 (DOWN); a tap in MENU_PULSES steps
\* pulses_per_rev by one and wraps it from 66 to 1 (UP) and from 1 to 66
\* (DOWN).
C14_Wraparound ==
    \A i \in 1..Len(st.h_taps) :
       LET tp == st.h_taps[i] IN
       /\ tp.menu = "MENU_FILTER"
             => tp.after.filter_strength =
                   WrapStep(tp.before.filter_strength, tp.up, 0, 10)
       /\ tp.menu = "MENU_PULSES"
             => tp.after.pulses_per_rev =
                   WrapStep(tp.before.pulses_per_rev, tp.up, 1, 66)

\* DOWN in MENU_FILTER at 0 has wrapped the filter strength to 10.
C14_Witness ==
    /\ Len(st.h_taps) > 0
    /\ LastTap.menu = "MENU_FILTER"
    /\ ~LastTap.up
    /\ LastTap.before.filter_strength = 0
    /\ st.settings.filter_strength = 10

\* A diameter the menu shows: a multiple of 1/8 inch from 0.125 to 12.0, or
\* a whole number of millimetres from 1 to 300.
LegalDiameter(set) ==
    IF set.use_inches
    THEN set.workpiece_diameter \in {e * 125 : e \in 1..96}
    ELSE set.workpiece_diameter \in {d * 1000 : d \in 1..300}

\* The distance between two diameters, in thousandths of the unit.
Distance(a, b) == IF a >= b THEN a - b ELSE b - a

\* The tap before the last and the last were both made in MENU_UNITS, on a
\* legal diameter.
ToggledTwice ==
    /\ Len(st.h_taps) >= 2
    /\ st.h_taps[Len(st.h_taps) - 1].menu = "MENU_UNITS"
    /\ LastTap.menu = "MENU_UNITS"
    /\ LegalDiameter(st.h_taps[Len(st.h_taps) - 1].before)

\* The settings before the first of the two toggles.
Original == st.h_taps[Len(st.h_taps) - 1].before

\* C15 as stated: two toggles of use_inches restore use_inches and leave
\* the diameter within one display increment of the original: 1/8 inch if
\* it was in inches, 1 mm if it was in millimetres.
C15_ToggleTwiceOneIncrement ==
    ToggledTwice
    => /\ st.settings.use_inches = Original.use_inches
       /\ Distance(st.settings.workpiece_diameter,
                   Original.workpiece_diameter)
             <= (IF Original.use_inches THEN 125 ELSE 1000)

\* C15 amended: two toggles of use_inches restore use_inches; a diameter
\* in inches comes back exactly, a diameter in millimetres comes back
\* within 2 mm.
C15_ToggleTwiceTwoMillimetres ==
    ToggledTwice
    => /\ st.settings.use_inches = Original.use_inches
       /\ Distance(st.settings.workpiece_diameter,
                   Original.workpiece_diameter)
             <= (IF Original.use_inches THEN 0 ELSE 2000)

\* 8 mm has become 0.375 inch and has come back as 10 mm.
C15_Witness ==
    /\ ToggledTwice
    /\ ~Original.use_inches
    /\ Original.workpiece_diameter = 8000
    /\ st.settings.workpiece_diameter = 10000
    /\ ~st.settings.use_inches

---------------------------------------------------------------------------
(* save_settings() and load_settings() statement by statement, with power  *)
(* loss (specification SpecFlash).  The page is programmed in the order of *)
(* its addresses; tach_settings_t lies at the start of the page.           *)

\* The fields of tach_settings_t in address order, the magic number as its
\* two half-words (little-endian), and the offset of the end of each.
ProgramOrder ==
    <<"magic_lo", "magic_hi", "pulses_per_rev", "gear_ratio", "show_decimal",
      "filter_strength", "workpiece_diameter", "use_inches">>

FieldEnd ==
    [magic_lo |-> 2, magic_hi |-> 4, pulses_per_rev |-> 5, gear_ratio |-> 12,
     show_decimal |-> 13, filter_strength |-> 14,
     workpiece_diameter |-> 20, use_inches |-> 21]

\* The flash record fl after field f of the page buffer data is programmed.
ProgramField(fl, data, f) ==
    IF FieldEnd[f] > FLASH_PAGE_SIZE THEN fl
    ELSE CASE f = "magic_lo" ->
                [fl EXCEPT !.magic_number = <<@[1], data.magic_number[2]>>]
           [] f = "magic_hi" ->
                [fl EXCEPT !.magic_number = <<data.magic_number[1], @[2]>>]
           [] OTHER -> [fl EXCEPT ![f] = data[f]]

\* A record with every field at the limit of its range, left by an earlier
\* run.
EdgeSettings ==
    [magic_number |-> SETTINGS_MAGIC,
     pulses_per_rev |-> 66,
     gear_ratio |-> 100,
     show_decimal |-> FALSE,
     filter_strength |-> 10,
     workpiece_diameter |-> 12000,
     use_inches |-> TRUE]

\* The flash sector as the first boot of a run finds it.
FlashFound == {ErasedFlash, DefaultSettings, EdgeSettings}

\* load_settings() that sets the defaults and does not save them.
LsLoadNoSave(s) ==
    IF s.flash.magic_number = SETTINGS_MAGIC
    THEN [s EXCEPT !.settings = s.flash, !.pc = "setup_irq"]
    ELSE [s EXCEPT !.settings = DefaultSettings, !.pc = "setup_irq"]

\* load_settings() up to its call of save_settings().
LsLoad(s) ==
    IF s.flash.magic_number = SETTINGS_MAGIC
    THEN [s EXCEPT !.settings = s.flash, !.pc = "setup_irq"]
    ELSE [s EXCEPT !.settings = DefaultSettings,
                   !.h_saves = @ + 1,
                   !.ss_ret = "setup_irq", !.pc = "ss_copy"]

\* gpio_set_irq_enabled_with_callback(...), gpio_set_irq_enabled(...), the
\* welcome screen.
SetupIrq(s) == [s EXCEPT !.gpio_irq_on = TRUE, !.pc = "loop"]

\* The direct diameter adjustment of a short press in MENU_NONE, up to its
\* call of save_settings().
AdjustDiameter(s, up) ==
    [s EXCEPT !.settings = IF up THEN ShortUpEdit("MENU_NONE", @)
                                 ELSE ShortDownEdit("MENU_NONE", @),
              !.h_adjusts = @ + 1,
              !.h_saves = @ + 1,
              !.ss_ret = "loop", !.pc = "ss_copy"]

\* memcpy(data, &settings, sizeof(settings)); the rest of data is 0xFF.
SsCopy(s) == [s EXCEPT !.ss_data = s.settings, !.pc = "ss_disable"]

\* save_settings() that leaves the interrupts enabled.
SsDisableKeepsInterrupts(s) ==
    [s EXCEPT !.ss_ints = s.irq_enabled, !.pc = "ss_erase"]

\* uint32_t ints = save_and_disable_interrupts();
SsDisable(s) ==
    [s EXCEPT !.ss_ints = s.irq_enabled, !.irq_enabled = FALSE,
              !.pc = "ss_erase"]

\* flash_range_erase(FLASH_TARGET_OFFSET, FLASH_SECTOR_SIZE): its start ...
SsEraseStart(s) == [s EXCEPT !.h_flash = "erasing", !.pc = "ss_erasing"]

\* ... and its end.
SsEraseEnd(s) ==
    [s EXCEPT !.flash = ErasedFlash, !.h_flash = "programming",
              !.ss_k = 0, !.pc = "ss_program"]

\* flash_range_program() that stops after the four fields of the older
\* layout.
SsProgramFourFields(s) ==
    LET f == ProgramOrder[s.ss_k + 1]
        done == s.ss_k + 1 = Len(ProgramOrder)
    IN [s EXCEPT !.flash = IF f \in {"workpiece_diameter", "use_inches"}
                           THEN @ ELSE ProgramField(@, s.ss_data, f),
                 !.ss_k = @ + 1,
                 !.h_flash = IF done THEN "committed" ELSE @,
                 !.h_committed = IF done THEN s.ss_data ELSE @,
                 !.pc = IF done THEN "ss_restore" ELSE "ss_program"]

\* flash_range_program(FLASH_TARGET_OFFSET, data, FLASH_PAGE_SIZE): the next
\* field of the page.
SsProgram(s) ==
    LET f == ProgramOrder[s.ss_k + 1]
        done == s.ss_k + 1 = Len(ProgramOrder)
    IN [s EXCEPT !.flash = ProgramField(@, s.ss_data, f),
                 !.ss_k = @ + 1,
                 !.h_flash = IF done THEN "committed" ELSE @,
                 !.h_committed = IF done THEN s.ss_data ELSE @,
                 !.pc = IF done THEN "ss_restore" ELSE "ss_program"]

\* restore_interrupts(ints); and the return: the locals are dead.
SsRestore(s) ==
    [s EXCEPT !.irq_enabled = s.ss_ints, !.ss_data = ZeroSettings,
              !.ss_ints = TRUE, !.ss_k = 0, !.pc = s.ss_ret]

\* The handler runs for an edge at gpio.
IsrRun(s, gpio, t) ==
    [gpio_callback(s, gpio, {GPIO_IRQ_EDGE_FALL}, t) EXCEPT
        !.h_isr_runs = @ + 1,
        !.h_isr_in_flash = @ \/ s.pc \in {"ss_erasing", "ss_program"}]

\* The processor takes an interrupt when the GPIO interrupt is enabled and
\* the mask is open.
IrqOpen(s) == s.gpio_irq_on /\ s.irq_enabled

\* The foreground runs when no interrupt is to be taken.
CpuFree == ~(IrqOpen(st) /\ st.irq_pend # {})

InitFlash ==
    /\ now = 0
    /\ \E flash \in FlashFound : st = InitState(flash)

LsLoadStep ==
    /\ st.pc = "setup"
    /\ st' = LsLoad(st)
    /\ UNCHANGED now

SetupIrqStep ==
    /\ st.pc = "setup_irq"
    /\ st' = SetupIrq(st)
    /\ UNCHANGED now

AdjustStep ==
    /\ st.pc = "loop"
    /\ CpuFree
    /\ st.h_adjusts < MaxAdjusts
    /\ \E up \in BOOLEAN : st' = AdjustDiameter(st, up)
    /\ UNCHANGED now

SsCopyStep ==
    /\ st.pc = "ss_copy"
    /\ CpuFree
    /\ st' = SsCopy(st)
    /\ UNCHANGED now

SsDisableStep ==
    /\ st.pc = "ss_disable"
    /\ CpuFree
    /\ st' = SsDisable(st)
    /\ UNCHANGED now

SsEraseStartStep ==
    /\ st.pc = "ss_erase"
    /\ CpuFree
    /\ st' = SsEraseStart(st)
    /\ UNCHANGED now

SsEraseEndStep ==
    /\ st.pc = "ss_erasing"
    /\ CpuFree
    /\ st' = SsEraseEnd(st)
    /\ UNCHANGED now

SsProgramStep ==
    /\ st.pc = "ss_program"
    /\ CpuFree
    /\ st' = SsProgram(st)
    /\ UNCHANGED now

SsRestoreStep ==
    /\ st.pc = "ss_restore"
    /\ CpuFree
    /\ st' = SsRestore(st)
    /\ UNCHANGED now

\* An edge at a pin: the handler runs at once, or the edge waits for the
\* mask, or (before the GPIO interrupt is enabled) nothing happens.
FlashEdge ==
    /\ st.h_edges < MaxFlashEdges
    /\ now' = now + PulseGapUs
    /\ \E gpio \in {HALL_SENSOR_PIN, BUTTON_DOWN_PIN} :
          st' = [(IF IrqOpen(st) THEN IsrRun(st, gpio, now')
                  ELSE IF st.gpio_irq_on
                       THEN [st EXCEPT !.irq_pend = @ \cup {gpio}]
                       ELSE st)
                 EXCEPT !.h_edges = @ + 1]

\* The handler runs for an edge that has waited for the mask.
IrqDeliver ==
    /\ IrqOpen(st)
    /\ \E gpio \in st.irq_pend :
          st' = [IsrRun(st, gpio, now) EXCEPT !.irq_pend = @ \ {gpio},
                                             !.h_deferred = @ + 1]
    /\ UNCHANGED now

\* The power goes and comes back: the memory starts afresh, the flash
\* sector stays as it is; an erase that was cut short has left the old
\* record or an erased sector.
PowerLoss ==
    /\ st.h_boots < MaxPowerLosses
    /\ now' = 0
    /\ \E fl \in (IF st.pc = "ss_erasing" THEN {st.flash, ErasedFlash}
                   ELSE {st.flash}) :
          st' = [InitState(fl) EXCEPT !.h_flash = st.h_flash,
                                      !.h_committed = st.h_committed,
                                      !.h_boots = st.h_boots + 1,
                                      !.h_edges = st.h_edges,
                                      !.h_adjusts = st.h_adjusts]

FlashNext ==
    \/ LsLoadStep
    \/ SetupIrqStep
    \/ AdjustStep
    \/ SsCopyStep
    \/ SsDisableStep
    \/ SsEraseStartStep
    \/ SsEraseEndStep
    \/ SsProgramStep
    \/ SsRestoreStep
    \/ FlashEdge
    \/ IrqDeliver
    \/ PowerLoss

SpecFlash == InitFlash /\ [][FlashNext]_vars

\* The record of the defaults, field by field.
DefaultsLiteral ==
    [magic_number |-> SETTINGS_MAGIC, pulses_per_rev |-> 1, gear_ratio |-> 10,
     show_decimal |-> TRUE, filter_strength |-> 3,
     workpiece_diameter |-> 25000, use_inches |-> FALSE]

\* load_settings() runs in this step.
Loads == st.pc = "setup" /\ st'.pc # "setup"

\* C16: a boot whose flash sector holds what the last completed
\* save_settings() wrote loads a record equal, field by field, to the
\* settings that were saved, and load_settings() does not save again.
C16_SaveLoadRoundTrip ==
    [][(Loads /\ st.h_flash = "committed")
       => /\ st'.settings = st.h_committed
          /\ st'.h_saves = st.h_saves
          /\ st'.flash = st.flash
          /\ st'.pc = "setup_irq"]_vars

\* A record with pulses_per_rev 66 and gear_ratio 10.0 and an adjusted
\* diameter was saved, the power went, and the boot has loaded it.
C16_Witness ==
    /\ st.pc = "setup_irq"
    /\ st.h_flash = "committed"
    /\ st.h_boots > 0
    /\ st.h_adjusts = 1
    /\ st.settings = st.h_committed
    /\ st.settings.pulses_per_rev = 66
    /\ st.settings.gear_ratio = 100
    /\ st.settings.workpiece_diameter = 125
    /\ st.h_saves = 0

\* C17: when the magic number in flash is not SETTINGS_MAGIC,
\* load_settings() sets the seven fields to the defaults and calls
\* save_settings() once; when that call returns the flash record holds
\* the defaults.
C17_DefaultsOnBadMagic ==
    [][/\ (Loads /\ st.flash.magic_number # SETTINGS_MAGIC)
          => /\ st'.settings = DefaultsLiteral
             /\ st'.h_saves = st.h_saves + 1
             /\ st'.pc = "ss_copy"
       /\ (st.pc = "ss_restore" /\ st.ss_ret = "setup_irq"
              /\ st'.pc = "setup_irq")
          => /\ st'.flash = DefaultsLiteral
             /\ st'.settings = DefaultsLiteral
             /\ st'.h_saves = 1]_vars

\* After a loss of power the boot has found a magic number that is not
\* SETTINGS_MAGIC, has set the defaults and has saved them once.
C17_Witness ==
    /\ st.pc = "setup_irq"
    /\ st.h_boots = 1
    /\ st.h_saves = 1
    /\ st.settings = DefaultsLiteral
    /\ st.flash = DefaultsLiteral

\* C18: a boot that follows a loss of power after the erase and before the
\* end of the page program finds a magic number that is not SETTINGS_MAGIC
\* and restores the defaults: it adopts no partially written record.
C18_NoPartialRecordAdopted ==
    [][(Loads /\ st.h_flash = "programming")
       => /\ st.flash.magic_number # SETTINGS_MAGIC
          /\ st'.settings = DefaultsLiteral]_vars

\* C19: gpio_callback does not run between the start of the erase and the
\* end of the page program; the interrupts are masked from before the
\* erase until after the program and open again when save_settings() has
\* returned; the handler leaves the foreground where it is and the flash
\* record as it is, and calls save_settings() zero times.
C19_FlashOpMasked ==
    /\ [](/\ ~st.h_isr_in_flash
          /\ st.pc \in {"ss_erase", "ss_erasing", "ss_program", "ss_restore"}
                => ~st.irq_enabled
          /\ st.pc \in {"setup_irq", "loop"} => st.irq_enabled)
    /\ [][st'.h_isr_runs = st.h_isr_runs + 1
            => /\ st.pc \notin {"ss_erasing", "ss_program"}
               /\ st'.pc = st.pc
               /\ st'.flash = st.flash
               /\ st'.h_saves = st.h_saves]_vars

\* An edge came while the page was being programmed, waited for the mask,
\* and the handler has run after restore_interrupts().
C19_Witness ==
    /\ st.pc = "loop"
    /\ st.h_deferred = 1
    /\ st.h_isr_runs = 1
    /\ st.h_flash = "committed"
    /\ st.irq_pend = {}

---------------------------------------------------------------------------
(* The first RPM after the welcome screen (specification SpecCalc): the    *)
(* shaft turns steadily while setup() waits in busy_wait_ms(2000) with the *)
(* interrupts enabled; the first iteration of the loop then calls          *)
(* calculate_rpm() with filtered_rpm still 0, so that current_rpm is the   *)
(* raw new_rpm.                                                            *)

\* The records of an earlier run: every pulses_per_rev and every
\* gear_ratio.
CalcRecords ==
    {[DefaultSettings EXCEPT !.pulses_per_rev = p] : p \in 1..66}
    \cup {[DefaultSettings EXCEPT !.gear_ratio = r] : r \in 1..100}

\* The gaps between two pulses, in microseconds.
CalcGaps == {PulseGapUs, SlowGapFactor * PulseGapUs}

\* The intervals the shaft leaves in the accumulator before the loop
\* starts.
CalcIntervals == {1, 2, MaxIntervals - 2, MaxIntervals - 1, MaxIntervals}

\* setup() has enabled the interrupts; the first pulse is one gap away and
\* the last one comes as the welcome wait ends.
InitCalc ==
    \E rec \in CalcRecords, gap \in CalcGaps, n \in CalcIntervals :
       /\ now = (SETUP_WAIT_MS + WELCOME_WAIT_MS) * 1000 - (n + 1) * gap
       /\ st = [Setup(InitState(rec)) EXCEPT !.h_gap = gap,
                                             !.h_intervals = n]

\* The next pulse of the steady shaft, during the welcome wait.
CalcPulse ==
    /\ st.pc = "welcome"
    /\ st.pulse_count < st.h_intervals + 1
    /\ now' = now + st.h_gap
    /\ st' = gpio_callback(st, HALL_SENSOR_PIN, {GPIO_IRQ_EDGE_FALL}, now')

\* The wait is over: the first iteration of the loop, with no interrupt,
\* up to the display update.
CalcLoopStep ==
    /\ st.pc = "welcome"
    /\ st.pulse_count = st.h_intervals + 1
    /\ st' = FgTo({"display"})
    /\ UNCHANGED now

CalcNext ==
    \/ CalcPulse
    \/ CalcLoopStep

SpecCalc == InitCalc /\ [][CalcNext]_vars

\* C20: when calculate_rpm() has consumed an accumulator of N >= 1 equal
\* intervals of T microseconds, with no timeout and no interrupt during the
\* computation, the raw RPM is 60,000,000 / T / pulses_per_rev * gear_ratio
\* (in tenths of an RPM, the quotients in whole RPM).
C20_RawRpmFormula ==
    (/\ st.pc = "display"
     /\ st.h_intervals >= 1
     /\ st.pulse_interval_sum = 0)
    => st.current_rpm =
          ((60000000 \div st.h_gap) \div st.settings.pulses_per_rev)
             * st.settings.gear_ratio

---------------------------------------------------------------------------
(* The filter under a shaft that changes speed (specification SpecFilter): *)
(* the device boots with a record of any filter_strength, the gaps between *)
(* the pulses vary, and the loop runs between two pulses, its iteration    *)
(* divided at the computation of calculate_rpm().                          *)

FilterRecords ==
    {[DefaultSettings EXCEPT !.filter_strength = f] : f \in 0..10}

\* The gaps between two pulses: the shaft at full speed, a fifth slower,
\* at half speed.
FilterGaps == {PulseGapUs, (12 * PulseGapUs) \div 10, 2 * PulseGapUs}

InitFilter ==
    /\ now = (SETUP_WAIT_MS + WELCOME_WAIT_MS) * 1000
    /\ \E rec \in FilterRecords :
          st = FgRun(InitState(rec), now, {"loop"})

\* A pulse of the sensor between two iterations of the loop.
FilterPulse ==
    /\ st.pc = "loop"
    /\ st.pulse_count < MaxFilterPulses
    /\ \E gap \in FilterGaps :
          /\ now' = now + gap
          /\ st' = gpio_callback(st, HALL_SENSOR_PIN, {GPIO_IRQ_EDGE_FALL},
                                 now')

\* The loop up to the computation of a sample, or once round without one.
FilterLoopStep ==
    /\ st.pc = "loop"
    /\ st' = FgTo({"cr_compute", "loop"})
    /\ UNCHANGED now

\* The computation: lines 570 to 603.
FilterComputeStep ==
    /\ st.pc = "cr_compute"
    /\ st' = FgStep(st, now)
    /\ UNCHANGED now

\* The rest of the iteration.
FilterRestStep ==
    /\ st.pc = "cr_reset_sum"
    /\ st' = FgTo({"cr_compute", "loop"})
    /\ UNCHANGED now

FilterNext ==
    \/ FilterPulse
    \/ FilterLoopStep
    \/ FilterComputeStep
    \/ FilterRestStep

SpecFilter == InitFilter /\ [][FilterNext]_vars

\* The raw sample of the computation that is about to run, or has just
\* run: new_rpm of line 576.
RawSample == NewRpm(st.cr_sum \div st.cr_count, st.settings)

\* This step computes a raw sample.
ComputesSample ==
    /\ st.pc = "cr_compute"
    /\ st'.pc = "cr_reset_sum"
    /\ st.cr_count > 0
    /\ st.cr_sum \div st.cr_count > 0

\* The raw sample is below 70% of a previous RPM above 10.
RapidDeceleration ==
    st.previous_rpm > 100 /\ 10 * RawSample < 7 * st.previous_rpm

\* C21: with filter_strength 0 a calculate_rpm() pass that computes a raw
\* sample sets filtered_rpm and current_rpm to that sample, whatever
\* filtered_rpm was.
C21_NoFilterAtZero ==
    [][(ComputesSample /\ st.settings.filter_strength = 0)
       => /\ st'.filtered_rpm = RawSample
          /\ st'.current_rpm = RawSample]_vars

\* With filter_strength 0 the shaft has slowed by a fifth and the RPM has
\* followed the raw sample at once.
C21_Witness ==
    /\ st.pc = "cr_reset_sum"
    /\ st.settings.filter_strength = 0
    /\ st.previous_rpm > 100
    /\ st.current_rpm < st.previous_rpm
    /\ 10 * st.current_rpm >= 7 * st.previous_rpm
    /\ st.current_rpm = RawSample
    /\ st.filtered_rpm = RawSample

\* C22: with filter_strength f in 1..10, filtered_rpm r1 not zero and a
\* raw sample r2 that is no rapid deceleration, calculate_rpm() sets
\* filtered_rpm and current_rpm to r1 * f/10 + r2 * (1 - f/10), here to
\* the tenth of an RPM below it.
C22_ExponentialAverage ==
    [][(/\ ComputesSample
        /\ st.settings.filter_strength \in 1..10
        /\ st.filtered_rpm # 0
        /\ ~RapidDeceleration)
       => LET f == st.settings.filter_strength
              mix == st.filtered_rpm * f + RawSample * (10 - f)
          IN /\ 10 * st'.filtered_rpm <= mix
             /\ mix < 10 * st'.filtered_rpm + 10
             /\ st'.current_rpm = st'.filtered_rpm]_vars

\* With filter_strength 3 the shaft has slowed by a fifth and the RPM lies
\* between the raw sample and the previous RPM.
C22_Witness ==
    /\ st.pc = "cr_reset_sum"
    /\ st.settings.filter_strength = 3
    /\ st.previous_rpm > 100
    /\ RawSample < st.current_rpm
    /\ st.current_rpm < st.previous_rpm
    /\ st.filtered_rpm = st.current_rpm

\* C23: at every filter_strength, when the previous RPM is above 10 and
\* the raw sample is below 70% of it, calculate_rpm() sets filtered_rpm
\* and current_rpm to the raw sample.
C23_DecelerationBypass ==
    [][(ComputesSample /\ RapidDeceleration)
       => /\ st'.filtered_rpm = RawSample
          /\ st'.current_rpm = RawSample]_vars

\* With filter_strength 10 the shaft has dropped to half speed and the RPM
\* is the raw sample.
C23_Witness ==
    /\ st.pc = "cr_reset_sum"
    /\ st.settings.filter_strength = 10
    /\ st.previous_rpm > 100
    /\ 10 * st.current_rpm < 7 * st.previous_rpm
    /\ st.current_rpm = RawSample
    /\ st.filtered_rpm = RawSample

---------------------------------------------------------------------------
(* Claims about the scheduling of calculate_rpm() (specification SpecRpm)  *)

\* C24: whenever the interrupt has set rpm_data_ready, a calculate_rpm()
\* call that starts after that interrupt runs before rpm_data_ready is
\* cleared: when main() clears the flag, the call it has just made sampled
\* its time no earlier than the last pulse.
C24_ReadyServedBeforeClear ==
    [][(/\ st.pc = "rpm_clear"
        /\ st'.pc # "rpm_clear"
        /\ st.rpm_data_ready)
       => st.cr_current_time >= st.current_pulse_time]_vars

---------------------------------------------------------------------------
(* Claims about gpio_callback                                              *)

\* The handler runs for an edge of the hall sensor in this step.
SensorEdgeHandled == st'.pulse_count = st.pulse_count + 1

\* C25: on each sensor edge gpio_callback puts the time into
\* current_pulse_time and the previous time into last_pulse_time; for the
\* first pulse after boot it leaves the accumulator and rpm_data_ready as
\* they are; for every later pulse it adds the difference of the two times
\* to pulse_interval_sum, adds one to pulse_intervals_count (in its eight
\* bits) and sets rpm_data_ready.
C25_SensorEdgeContract ==
    [][SensorEdgeHandled
       => /\ st'.current_pulse_time = now'
          /\ st'.last_pulse_time = st.current_pulse_time
          /\ IF st.pulse_count = 0
             THEN /\ st'.pulse_interval_sum = st.pulse_interval_sum
                  /\ st'.pulse_intervals_count = st.pulse_intervals_count
                  /\ st'.rpm_data_ready = st.rpm_data_ready
                  /\ ~st'.rpm_data_ready
             ELSE /\ st'.pulse_interval_sum =
                        st.pulse_interval_sum
                           + (st'.current_pulse_time - st.current_pulse_time)
                  /\ st'.pulse_intervals_count =
                        (st.pulse_intervals_count + 1) % 256
                  /\ st'.rpm_data_ready]_vars

\* The first pulse has left the accumulator empty and the second has put
\* one interval of the gap between them into it.
C25_Witness ==
    /\ st.pc = "welcome"
    /\ st.pulse_count = 2
    /\ st.last_pulse_time > 0
    /\ st.pulse_interval_sum = st.current_pulse_time - st.last_pulse_time
    /\ st.pulse_interval_sum = st.h_gap
    /\ st.pulse_intervals_count = 1
    /\ st.rpm_data_ready

\* The pulse timing state, with the observer that counts the intervals in
\* the sum, and the state of one button.
PulseTimingState ==
    {"pulse_count", "last_pulse_time", "current_pulse_time",
     "pulse_interval_sum", "pulse_intervals_count", "rpm_data_ready",
     "h_sum_n"}

ButtonState(gpio) ==
    IF gpio = BUTTON_UP_PIN
    THEN {"button_up_pressed", "button_up_press_time", "button_up_long_press"}
    ELSE {"button_down_pressed", "button_down_press_time",
          "button_down_long_press"}

\* The states a and b differ in the named fields at most.
SameExcept(a, b, fields) ==
    /\ DOMAIN a = DOMAIN b
    /\ \A f \in DOMAIN a \ fields : a[f] = b[f]

\* C26: in whatever state the handler is invoked, and for every pin and
\* every event mask, a sensor edge changes the pulse timing state only, a
\* button edge changes the pressed flag, the press time and the long-press
\* flag of that button only; settings, current_menu, menu_last_activity,
\* current_rpm, filtered_rpm and the flash record stay as they are.
C26_HandlerFrame ==
    \A gpio \in {HALL_SENSOR_PIN, BUTTON_UP_PIN, BUTTON_DOWN_PIN},
       events \in {{GPIO_IRQ_EDGE_FALL}, {GPIO_IRQ_EDGE_RISE},
                   {GPIO_IRQ_EDGE_FALL, GPIO_IRQ_EDGE_RISE}} :
       LET n == gpio_callback(st, gpio, events, now + IsrLatencyUs) IN
       /\ SameExcept(st, n, IF gpio = HALL_SENSOR_PIN
                            THEN PulseTimingState ELSE ButtonState(gpio))
       /\ n.settings = st.settings
       /\ n.current_menu = st.current_menu
       /\ n.menu_last_activity = st.menu_last_activity
       /\ n.current_rpm = st.current_rpm
       /\ n.filtered_rpm = st.filtered_rpm
       /\ n.flash = st.flash

\* The handler has run for a sensor edge and for a press of DOWN, and the
\* settings and the flash record are those of the boot.
C26_Witness ==
    /\ st.pc = "loop"
    /\ st.h_isr_runs = 2
    /\ st.pulse_count = 1
    /\ st.current_pulse_time > 0
    /\ st.button_down_pressed
    /\ st.button_down_press_time > 0
    /\ st.settings = EdgeSettings
    /\ st.flash = EdgeSettings
    /\ st.current_menu = "MENU_NONE"

---------------------------------------------------------------------------
(* Claims about the buttons outside and at the exit of the menu            *)

\* What a wrapping step of inc up or down makes of v in lo..hi.
WrapStepBy(v, up, lo, hi, inc) ==
    IF up THEN (IF v = hi THEN lo ELSE v + inc)
          ELSE (IF v = lo THEN hi ELSE v - inc)

\* The diameter one increment of its unit away from that of set.
DiameterStepped(set, up) ==
    IF set.use_inches
    THEN WrapStepBy(set.workpiece_diameter, up, 125, 12000, 125)
    ELSE WrapStepBy(set.workpiece_diameter, up, 1000, 300000, 1000)

\* C27: a tap of UP (DOWN) with current_menu MENU_NONE takes
\* workpiece_diameter one increment of the unit in use (1/8 inch or 1 mm) up
\* (down), from the maximum to the minimum (from the minimum to the
\* maximum), leaves the other settings and the menu state as they are,
\* and calls save_settings() in the same pass, so that the flash record
\* holds the new settings.
C27_DirectDiameterAdjust ==
    \A i \in 1..Len(st.h_taps) :
       LET tp == st.h_taps[i] IN
       (tp.menu = "MENU_NONE" /\ LegalDiameter(tp.before))
       => /\ tp.after = [tp.before EXCEPT !.workpiece_diameter =
                                            DiameterStepped(tp.before, tp.up)]
          /\ tp.menu_after = "MENU_NONE"
          /\ tp.saves = 1
          /\ tp.flash = tp.after

\* UP on the main screen at 300 mm has wrapped the diameter to 1 mm and
\* the flash record holds it.
C27_Witness ==
    /\ Len(st.h_taps) > 0
    /\ LastTap.menu = "MENU_NONE"
    /\ LastTap.up
    /\ LastTap.before.workpiece_diameter = 300000
    /\ ~LastTap.before.use_inches
    /\ st.settings.workpiece_diameter = 1000
    /\ st.flash = st.settings
    /\ LastTap.saves = 1

\* The DOWN long press fires in this step.
DownLongPressFires == st'.h_down_fires = st.h_down_fires + 1

---------------------------------------------------------------------------
(* The settings in memory and the record in flash                          *)

\* A short press acts on the settings while a menu other than MENU_NONE is
\* open.
MenuEdit ==
    /\ st.current_menu # "MENU_NONE"
    /\ \/ st'.h_up_acts = st.h_up_acts + 1
       \/ st'.h_down_acts = st.h_down_acts + 1

\* C11: a short-press edit made while a menu other than MENU_NONE is open
\* changes the settings in memory only: the step leaves the flash record as
\* it was and does not call save_settings(); the flash record changes, and
\* save_settings() is called, only in a step that ends with current_menu
\* equal to MENU_NONE.
C11_MenuEditsBuffered ==
    [][/\ MenuEdit => (st'.flash = st.flash /\ ~Saved)
       /\ st'.flash # st.flash => st'.current_menu = "MENU_NONE"
       /\ Saved => st'.current_menu = "MENU_NONE"]_vars

\* A short press of DOWN in MENU_PULSES has taken pulses_per_rev from 1 to
\* 66 in memory, the menu is still open and the flash record still holds 1.
C11_Witness ==
    /\ st.pc = "rpm_ready"
    /\ st.current_menu = "MENU_PULSES"
    /\ st.h_down_acts = 1
    /\ st.settings.pulses_per_rev = 66
    /\ st.flash.pulses_per_rev = 1
    /\ st.h_saves = 0

---------------------------------------------------------------------------
(* The older revision, src/main.cpp (specification SpecOld): the sensor    *)
(* interrupt against main() and calculate_rpm() statement by statement,    *)
(* with a train of pulses that stops.  No button is touched.               *)

OLD_HALL_SENSOR_PIN == 29
OLD_RPM_TIMEOUT_US == 3000000
OLD_SLEEP_MS == 10
OLD_DISPLAY_UPDATE_INTERVAL == 250

\* The pulses of the train, the time after the start of the loop in which
\* they arrive, and the end of the run.
MaxOldPulses == 3
OldPulseWindowMs == 30
MaxOldTimeMs == 5560

\* gpio_callback of src/main.cpp: the sensor edge raises rpm_data_ready once
\* pulses_per_rev intervals are in the accumulator; the button edges are
\* handled as in the current revision.
OldGpioCallback(s, gpio, events, t) ==
    IF gpio = OLD_HALL_SENSOR_PIN
    THEN LET a == [s EXCEPT !.pulse_count = @ + 1,
                            !.last_pulse_time = s.current_pulse_time,
                            !.current_pulse_time = t]
         IN IF a.last_pulse_time > 0
            THEN LET b == [a EXCEPT
                             !.pulse_interval_sum =
                                 @ + (a.current_pulse_time - a.last_pulse_time),
                             !.pulse_intervals_count = (@ + 1) % 256]
                 IN IF b.pulse_intervals_count >= b.settings.pulses_per_rev
                    THEN [b EXCEPT !.rpm_data_ready = TRUE]
                    ELSE b
            ELSE a
    ELSE gpio_callback(s, gpio, events, t)

\* The top of the loop: current_time is sampled and process_buttons() runs.
\* With no button ever pressed its long-press tests are false and its
\* short-press tests find a press older than LONG_PRESS_TIME: it sets the
\* two handled flags and nothing else.
OldLoopTop(s, t) ==
    [s EXCEPT !.current_time = to_ms_since_boot(t),
              !.pb_current_time = t, !.ms_time = to_ms_since_boot(t),
              !.button_up_handled = TRUE, !.button_down_handled = TRUE,
              !.pc = "old_ready"]

\* if (rpm_data_ready) { calculate_rpm(); ... }
OldReadyTest(s) ==
    IF s.rpm_data_ready THEN [s EXCEPT !.pc = "old_count_test"]
                        ELSE [s EXCEPT !.pc = "old_display"]

\* if (pulse_intervals_count > 0)
OldCountTest(s) ==
    IF s.pulse_intervals_count > 0 THEN [s EXCEPT !.pc = "old_read_sum"]
                                   ELSE [s EXCEPT !.pc = "old_clear"]

\* The read of pulse_interval_sum for the quotient.
OldReadSum(s) ==
    [s EXCEPT !.cr_sum = s.pulse_interval_sum, !.pc = "old_compute"]

\* The read of pulse_intervals_count, the quotient, new_rpm and the filter.
OldCompute(s) ==
    LET n == s.pulse_intervals_count
        avg_interval == IF n = 0 THEN 0 ELSE s.cr_sum \div n
    IN IF avg_interval > 0
       THEN LET new_rpm == NewRpm(avg_interval, s.settings) IN
            IF s.settings.filter_strength > 0
            THEN LET f == IF s.filtered_rpm = 0
                          THEN new_rpm
                          ELSE Ema(s.filtered_rpm, new_rpm,
                                   s.settings.filter_strength)
                 IN [s EXCEPT !.filtered_rpm = f, !.current_rpm = f,
                              !.cr_count = n, !.pc = "old_reset_sum"]
            ELSE [s EXCEPT !.current_rpm = new_rpm, !.filtered_rpm = new_rpm,
                           !.cr_count = n, !.pc = "old_reset_sum"]
       ELSE [s EXCEPT !.cr_count = n, !.pc = "old_reset_sum"]

\* pulse_interval_sum = 0;
OldResetSum(s) ==
    [s EXCEPT !.pulse_interval_sum = 0, !.pc = "old_reset_count"]

\* pulse_intervals_count = 0;
OldResetCount(s) ==
    [s EXCEPT !.pulse_intervals_count = 0, !.pc = "old_time"]

\* uint64_t current_time = time_us_64();
OldSampleTime(s, t) ==
    [s EXCEPT !.cr_current_time = t, !.pc = "old_timeout"]

\* if (current_time - current_pulse_time > 3000000): inside the test of
\* pulse_intervals_count, after the computation.
OldTimeout(s) ==
    IF UGt(s.cr_current_time, s.current_pulse_time, OLD_RPM_TIMEOUT_US)
    THEN [s EXCEPT !.current_rpm = 0, !.filtered_rpm = 0, !.pc = "old_clear"]
    ELSE [s EXCEPT !.pc = "old_clear"]

\* rpm_data_ready = false;
OldClear(s) ==
    [s EXCEPT !.rpm_data_ready = FALSE, !.pc = "old_display"]

\* The display every DISPLAY_UPDATE_INTERVAL, with the menu timeout.
OldDisplay(s) ==
    IF s.current_time - s.last_display_update >= OLD_DISPLAY_UPDATE_INTERVAL
    THEN LET d == [s EXCEPT !.last_display_update = s.current_time,
                            !.pc = "old_sleep"]
         IN IF /\ s.current_menu # "MENU_NONE"
               /\ s.current_time - s.menu_last_activity >= MENU_TIMEOUT
            THEN save_settings([d EXCEPT !.current_menu = "MENU_NONE"])
            ELSE d
    ELSE [s EXCEPT !.pc = "old_sleep"]

\* One statement of main() of src/main.cpp at time t.
OldFgStep(s, t) ==
    CASE s.pc = "old_loop" -> OldLoopTop(s, t)
      [] s.pc = "old_ready" -> OldReadyTest(s)
      [] s.pc = "old_count_test" -> OldCountTest(s)
      [] s.pc = "old_read_sum" -> OldReadSum(s)
      [] s.pc = "old_compute" -> OldCompute(s)
      [] s.pc = "old_reset_sum" -> OldResetSum(s)
      [] s.pc = "old_reset_count" -> OldResetCount(s)
      [] s.pc = "old_time" -> OldSampleTime(s, t)
      [] s.pc = "old_timeout" -> OldTimeout(s)
      [] s.pc = "old_clear" -> OldClear(s)
      [] s.pc = "old_display" -> OldDisplay(s)
      [] OTHER -> s

\* The time at which the loop starts: setup() has waited 500 ms and shown
\* the welcome screen for 2000 ms.
OldStart == (SETUP_WAIT_MS + WELCOME_WAIT_MS) * 1000

\* setup() has loaded the settings, or the defaults, and enabled the
\* interrupts.
InitOld ==
    /\ now = OldStart
    /\ \E flash \in FlashAtBoot :
          st = [load_settings(InitState(flash)) EXCEPT !.gpio_irq_on = TRUE,
                                                       !.pc = "old_loop"]

\* A pulse of the train: a falling edge of the sensor, between any two
\* statements of the loop, later than the pulse before it.
OldPulse ==
    /\ st.pulse_count < MaxOldPulses
    /\ now <= OldStart + OldPulseWindowMs * 1000
    /\ now > st.current_pulse_time
    /\ st' = OldGpioCallback(st, OLD_HALL_SENSOR_PIN, {GPIO_IRQ_EDGE_FALL}, now)
    /\ UNCHANGED now

\* One statement of the loop.
OldStatement ==
    /\ st.pc # "old_sleep"
    /\ st' = OldFgStep(st, now)
    /\ UNCHANGED now

\* sleep_ms(10): the only place where time passes; at the end of the run the
\* loop keeps going round.
OldSleep ==
    /\ st.pc = "old_sleep"
    /\ st' = [st EXCEPT !.pc = "old_loop"]
    /\ now' = IF now + OLD_SLEEP_MS * 1000 <= MaxOldTimeMs * 1000
              THEN now + OLD_SLEEP_MS * 1000
              ELSE now

OldNext ==
    \/ OldPulse
    \/ OldStatement
    \/ OldSleep

\* main() never stops: its statements and its sleep are taken again and
\* again.
SpecOld ==
    /\ InitOld
    /\ [][OldNext]_vars
    /\ WF_vars(OldStatement)
    /\ WF_vars(OldSleep)

\* A non-zero RPM has been computed and the last pulse is more than three
\* seconds old.
OldPulsesStopped ==
    /\ st.current_rpm # 0
    /\ now - st.current_pulse_time > OLD_RPM_TIMEOUT_US

\* C29: in src/main.cpp, once a non-zero RPM has been computed and no pulse
\* has come for more than 3 seconds, current_rpm and filtered_rpm
\* eventually become 0 while the loop keeps running.
C29_OldTimeoutToZero ==
    OldPulsesStopped ~> (st.current_rpm = 0 /\ st.filtered_rpm = 0)

---------------------------------------------------------------------------
(* The timeout test of calculate_rpm() against the interrupt               *)

\* calculate_rpm() takes the timeout branch in this step.
TakesTimeoutBranch ==
    /\ st.pc = "cr_timeout"
    /\ st'.pc = "cr_to_sum"

\* C30: calculate_rpm() takes the timeout branch only when the time since
\* the most recent sensor pulse is greater than RPM_TIMEOUT_MS, also when a
\* pulse interrupt comes between the sample of the time and the comparison.
C30_TimeoutOnlyWhenElapsed ==
    [][TakesTimeoutBranch
       => now - st.current_pulse_time > RPM_TIMEOUT_MS * 1000]_vars

---------------------------------------------------------------------------
(* The menu timeout against the two readings of the millisecond clock      *)

\* The display update of this step leaves the menu by the timeout.
MenuTimeoutFires ==
    /\ st.pc = "display"
    /\ st.current_menu # "MENU_NONE"
    /\ st'.current_menu = "MENU_NONE"

\* C31: the menu-timeout exit of main() happens only when at least
\* MENU_TIMEOUT milliseconds have passed since menu_last_activity was last
\* written, also when process_buttons() wrote it in the same iteration from
\* a millisecond reading later than the loop's current_time.
C31_TimeoutOnlyAfterTenSeconds ==
    [][MenuTimeoutFires
       => to_ms_since_boot(now) - st.menu_last_activity >= MENU_TIMEOUT]_vars

---------------------------------------------------------------------------
(* A shaft that turns steadily (specification SpecSteady): the pulses come *)
(* h_gap apart, the loop runs between them, once or more in every quantum  *)
(* of time, and no pulse falls inside an iteration.                        *)

\* The quantum of time, the intervals of the shaft in quanta (one below and
\* one above RPM_TIMEOUT_MS), the pulses of a run and its end.
SteadyTickMs == 100
SteadyFastTicks == 3
SteadySlowTicks == 10
MaxSteadyPulses == 4
MaxSteadyTimeMs == 8000

SteadyGaps == {SteadyFastTicks * SteadyTickMs * 1000,
               SteadySlowTicks * SteadyTickMs * 1000}

\* The time of the next pulse of the shaft.
NextPulseTime ==
    IF st.pulse_count = 0
    THEN (SETUP_WAIT_MS + WELCOME_WAIT_MS) * 1000 + st.h_gap
    ELSE st.current_pulse_time + st.h_gap

\* The shaft still turns: the pulses of the run are not used up.
ShaftTurns == st.pulse_count < MaxSteadyPulses

InitSteady ==
    /\ now = (SETUP_WAIT_MS + WELCOME_WAIT_MS) * 1000
    /\ \E flash \in FlashAtBoot, gap \in SteadyGaps :
          st = [FgRun(InitState(flash), now, {"loop"}) EXCEPT
                   !.h_gap = gap, !.h_polled = FALSE]

\* The pulse that is due.
SteadyPulse ==
    /\ st.pc = "loop"
    /\ ShaftTurns
    /\ now = NextPulseTime
    /\ st' = [gpio_callback(st, HALL_SENSOR_PIN, {GPIO_IRQ_EDGE_FALL}, now)
                 EXCEPT !.h_timed_out = FALSE]
    /\ UNCHANGED now

\* One iteration of the loop, or its part up to the timeout branch of
\* calculate_rpm().
SteadyIteration ==
    /\ st.pc = "loop"
    /\ st' = FgTo({"cr_to_sum", "loop"})
    /\ UNCHANGED now

\* The timeout branch, lines 558 to 564, and the rest of the iteration.
SteadyTimeoutBranch ==
    /\ st.pc = "cr_to_sum"
    /\ st' = [FgTo({"loop"}) EXCEPT !.h_timed_out = TRUE]
    /\ UNCHANGED now

\* Time passes once the loop has run and the pulse that was due has come.
SteadyTick ==
    /\ st.pc = "loop"
    /\ st.h_polled
    /\ ShaftTurns => now < NextPulseTime
    /\ now + SteadyTickMs * 1000 <= MaxSteadyTimeMs * 1000
    /\ now' = now + SteadyTickMs * 1000
    /\ st' = [st EXCEPT !.h_polled = FALSE]

SteadyNext ==
    \/ SteadyPulse
    \/ SteadyIteration
    \/ SteadyTimeoutBranch
    \/ SteadyTick

SpecSteady == InitSteady /\ [][SteadyNext]_vars

\* C32: for a shaft that keeps producing pulses at a constant interval,
\* also one longer than RPM_TIMEOUT_MS, current_rpm is not reset to zero
\* once the second pulse has been processed, as long as the pulses keep
\* arriving: a reset to zero happens only when the next pulse is overdue.
C32_SteadyShaftNeverZeroed ==
    [][(/\ st.pulse_count >= 2
        /\ st.current_rpm # 0
        /\ st'.current_rpm = 0)
       => now - st.current_pulse_time > st.h_gap]_vars

\* A pulse of the sensor is handled in this step.
SteadyPulseHandled == st'.pulse_count = st.pulse_count + 1

\* C33: once calculate_rpm() has taken the timeout branch, the first pulse
\* that follows is treated like a first pulse: it adds no interval to
\* pulse_interval_sum, so that every interval added later lies between two
\* pulses after the timeout.
C33_NoIntervalAcrossTimeout ==
    [][(SteadyPulseHandled /\ st.h_timed_out)
       => /\ st'.pulse_interval_sum = st.pulse_interval_sum
          /\ st'.pulse_intervals_count = st.pulse_intervals_count]_vars

---------------------------------------------------------------------------
(* The accumulator between its read and its reset                          *)

\* calculate_rpm() resets pulse_interval_sum after a computation (line 606)
\* in this step.
ResetsAfterComputation ==
    /\ st.pc = "cr_reset_sum"
    /\ st'.pc = "cr_reset_count"

\* C34: outside the timeout branch no interval is lost: when
\* calculate_rpm() resets the accumulator after a computation, every
\* interval gpio_callback has added to it is in the sum the mean was
\* computed from, wherever the interrupt preempted the function.
C34_NoIntervalLost ==
    [][ResetsAfterComputation => st.h_sum_n = st.cr_sum_n]_vars

---------------------------------------------------------------------------
(* The 8-bit counter of the accumulator                                    *)

\* C35: pulse_intervals_count equals the number of intervals added to
\* pulse_interval_sum since the last reset, however many pulse interrupts
\* come between two calls of calculate_rpm(): it does not wrap modulo 256.
C35_CountNeverWraps ==
    st.pulse_intervals_count = st.h_sum_n

---------------------------------------------------------------------------
(* The filter under a constant input                                       *)

\* The distance between two RPM values, in tenths.
RpmDistance(a, b) == IF a >= b THEN a - b ELSE b - a

\* C36: at every filter_strength in 1..10, a pass of calculate_rpm() whose
\* raw sample differs from the non-zero filtered_rpm (here by one RPM or
\* more, ten times the resolution of the model) and is no rapid
\* deceleration moves filtered_rpm strictly closer to the raw sample.
C36_FilterTracksInput ==
    [][(/\ ComputesSample
        /\ st.settings.filter_strength \in 1..10
        /\ st.filtered_rpm # 0
        /\ RpmDistance(st.filtered_rpm, RawSample) >= 10
        /\ ~RapidDeceleration)
       => RpmDistance(st'.filtered_rpm, RawSample)
             < RpmDistance(st.filtered_rpm, RawSample)]_vars

---------------------------------------------------------------------------
(* load_settings() over the contents of the flash sector (specification    *)
(* SpecLoad): the device boots with a sector that is erased, that holds a  *)
(* record of this revision, or that holds a record of src/main.cpp.        *)

\* save_settings() of src/main.cpp programs its four fields and fills the
\* page with 0xFF: the bytes of workpiece_diameter read as a NaN, and the
\* byte of use_inches, neither 0 nor 1, reads as either value.
OldLayoutRecords ==
    {[magic_number |-> SETTINGS_MAGIC,
      pulses_per_rev |-> p,
      gear_ratio |-> DefaultSettings.gear_ratio,
      show_decimal |-> d,
      filter_strength |-> DefaultSettings.filter_strength,
      workpiece_diameter |-> NaN,
      use_inches |-> u] : p \in 1..66, d \in BOOLEAN, u \in BOOLEAN}

\* The sector as the boot finds it.
LoadRecords == {ErasedFlash} \cup RecordsAtBoot \cup OldLayoutRecords

InitLoad ==
    /\ now = 0
    /\ \E flash \in LoadRecords : st = InitState(flash)

\* setup() up to the end of load_settings().
LoadStep ==
    /\ st.pc = "setup"
    /\ st' = Setup(st)
    /\ now' = now + SETUP_WAIT_MS * 1000

LoadNext == LoadStep

SpecLoad == InitLoad /\ [][LoadNext]_vars

\* Every field of set is within its range.
SettingsInRange(set) ==
    /\ set.pulses_per_rev \in 1..66
    /\ set.gear_ratio \in 1..100
    /\ set.filter_strength \in 0..10
    /\ IF set.use_inches THEN set.workpiece_diameter \in 125..12000
                         ELSE set.workpiece_diameter \in 1000..300000

\* C37: when load_settings() has returned, every field of the settings is
\* within its range, whatever the sector held, also a record with the
\* magic number of this program written in the four-field layout of
\* src/main.cpp.
C37_LoadedSettingsInRange ==
    st.pc = "welcome" => SettingsInRange(st.settings)

---------------------------------------------------------------------------
(* The long press and the short press of one press of a button             *)

\* C38: within one press/release cycle of a button the long-press action
\* and the short-press action exclude each other: process_buttons()
\* performs no short-press adjustment for a press whose long-press action
\* has fired, wherever the edges fall between its statements.
C38_LongExcludesShort ==
    [][/\ st'.h_up_acts = st.h_up_acts + 1 => st.h_up_fires = 0
       /\ st'.h_down_acts = st.h_down_acts + 1 => st.h_down_fires = 0]_vars

=============================================================================
